---------------------------- MODULE Spec2Model ----------------------------
(***************************************************************************)
(* A model of the mlspp group state machine (src/src/state.cpp) together   *)
(* with the key schedule it drives (src/src/key_schedule.cpp) and the      *)
(* TreeKEM ratchet tree it owns (declared in src/include/mls/treekem.h).   *)
(*                                                                         *)
(* Byte strings are symbolic terms: a tuple whose first element is a tag.  *)
(* Two terms are equal exactly when they were built the same way, which is *)
(* the behaviour of a collision-free hash, an unforgeable signature and a  *)
(* correct AEAD / HPKE.  An optional value is a sequence of length 0 or 1. *)
(***************************************************************************)
EXTENDS Integers, Sequences, FiniteSets, TLC

\* ------------------------------------------------------------------------
\* Bounds of the model
\* ------------------------------------------------------------------------
MaxEpoch == 2
MaxInFlight == 1
MaxPending == 2
MaxRetained == 3
MaxGeneration == 4
MaxField == 2
MaxPadding == 2
MaxBuffer == 4
MaxLeaves == 4
MaxRequests == 4

\* ------------------------------------------------------------------------
\* Generic helpers
\* ------------------------------------------------------------------------
None == <<>>
Some(v) == <<v>>
IsSome(o) == Len(o) = 1

RECURSIVE Pow2(_)
Pow2(k) == IF k = 0 THEN 1 ELSE 2 * Pow2(k - 1)

RECURSIVE Log2(_)
Log2(x) == IF x <= 1 THEN 0 ELSE 1 + Log2(x \div 2)

SeqToSet(s) == { s[i] : i \in 1..Len(s) }

\* ------------------------------------------------------------------------
\* Symbolic primitives (the cipher-suite registry of spec section 6)
\* ------------------------------------------------------------------------
EmptyBytes == <<"bytes", 0>>
ZeroBytes == <<"bytes", 1>>

Extract(salt, ikm) == <<"extract", salt, ikm>>
DeriveSecret(secret, label, ctx) == <<"derive", secret, label, ctx>>
Hmac(key, data) == <<"hmac", key, data>>

SigPriv(id) == <<"sigpriv", id>>
SigPub(id) == <<"sigpub", id>>
Sign(priv, tbs) == <<"sig", priv[2], tbs>>
Verify(pub, tbs, sig) == sig = <<"sig", pub[2], tbs>>
BadSignature == <<"sig", 0, EmptyBytes>>

\* An HPKE key pair is named by the secret it was derived from.
HpkePub(seed) == <<"hpkepub", seed>>
HpkeSeal(pub, aad, pt) == <<"hpke", pub[2], aad, pt, 0>>
HpkeTamper(ct) == <<"hpke", ct[2], ct[3], ct[4], 1>>
HpkeOpens(seed, aad, ct) == ct[2] = seed /\ ct[3] = aad /\ ct[5] = 0
HpkePlain(ct) == ct[4]

\* AEAD.  The last component records a modification of the ciphertext bytes:
\* 0 none, 1 a byte after the sender-data sample, 2 a byte inside the sample.
AeadSeal(key, nonce, aad, pt) == <<"aead", key, nonce, aad, pt, 0>>
AeadTamper(ct, how) == <<"aead", ct[2], ct[3], ct[4], ct[5], how>>
AeadOpens(key, nonce, aad, ct) ==
    ct[2] = key /\ ct[3] = nonce /\ ct[4] = aad /\ ct[6] = 0
AeadPlain(ct) == ct[5]
Sample(ct) == <<"sample", ct[2], ct[3], ct[4], ct[5], IF ct[6] = 2 THEN 2 ELSE 0>>

\* ------------------------------------------------------------------------
\* TreeMath (spec section 4.1): node index arithmetic, n = number of leaves
\* ------------------------------------------------------------------------
RECURSIVE Level(_)
Level(x) == IF x % 2 = 0 THEN 0 ELSE 1 + Level(x \div 2)

NodeWidth(n) == IF n = 0 THEN 0 ELSE 2 * n - 1

Root(n) == Pow2(Log2(NodeWidth(n))) - 1

Left(x) == IF Level(x) = 0 THEN x ELSE x - Pow2(Level(x) - 1)

RECURSIVE ClampLeft(_, _)
ClampLeft(r, w) == IF r >= w THEN ClampLeft(Left(r), w) ELSE r

Right(x, n) ==
    IF Level(x) = 0 THEN x ELSE ClampLeft(x + Pow2(Level(x) - 1), NodeWidth(n))

ParentStep(x) ==
    LET k == Level(x)
        b == (x \div Pow2(k + 1)) % 2
    IN  IF b = 1 THEN x + Pow2(k) - Pow2(k + 1) ELSE x + Pow2(k)

RECURSIVE ClampParent(_, _)
ClampParent(p, w) == IF p >= w THEN ClampParent(ParentStep(p), w) ELSE p

Parent(x, n) == IF x = Root(n) THEN x ELSE ClampParent(ParentStep(x), NodeWidth(n))

Sibling(x, n) ==
    LET p == Parent(x, n)
    IN  IF x < p THEN Right(p, n) ELSE IF x > p THEN Left(p) ELSE p

\* The ancestors of x in order, the root included (empty when x is the root).
RECURSIVE Ancestors(_, _)
Ancestors(x, n) ==
    IF x = Root(n) THEN <<>> ELSE <<Parent(x, n)>> \o Ancestors(Parent(x, n), n)

\* direct_path: the ancestors up to but not including the root.
DirectPath(x, n) ==
    LET a == Ancestors(x, n)
    IN  IF a = <<>> THEN <<>> ELSE SubSeq(a, 1, Len(a) - 1)

\* The sibling of every node on the path from x to below the root.
Copath(x, n) ==
    LET d == <<x>> \o DirectPath(x, n)
    IN  IF x = Root(n) THEN <<>> ELSE [i \in 1..Len(d) |-> Sibling(d[i], n)]

\* ancestor(l1, l2): the lowest node whose subtree contains both leaves.
CommonAncestor(l1, l2, n) ==
    LET a1 == <<2 * l1>> \o Ancestors(2 * l1, n)
        a2 == SeqToSet(<<2 * l2>> \o Ancestors(2 * l2, n))
        i == CHOOSE j \in 1..Len(a1) :
                 a1[j] \in a2 /\ \A k \in 1..(j - 1) : a1[k] \notin a2
    IN  a1[i]


\* ------------------------------------------------------------------------
\* Key packages and tree slots (spec section 3)
\* ------------------------------------------------------------------------
\* A key package binds an identity to an HPKE init key.  id is the member.
KeyPackage(id, seed) == [id |-> id, init_key |-> HpkePub(seed)]
KpHash(kp) == <<"kphash", kp.id, kp.init_key>>

LeafNode(kp) == <<"leaf", kp>>
ParentNode(pk) == <<"parent", pk>>
IsLeafNode(node) == node[1] = "leaf"
NodePublicKey(node) == IF IsLeafNode(node) THEN node[2].init_key ELSE node[2]

\* A tree is the sequence of its slots; node x is element x + 1; a slot is
\* None (blank) or Some(node).
TreeSize(tree) == (Len(tree) + 1) \div 2
NodeAt(tree, x) == tree[x + 1][1]
IsBlank(tree, x) == tree[x + 1] = None
SetNodes(tree, xs, slot) ==
    [i \in 1..Len(tree) |-> IF (i - 1) \in xs THEN slot ELSE tree[i]]

SetMin(S) == CHOOSE x \in S : \A y \in S : x <= y
SetMax(S) == CHOOSE x \in S : \A y \in S : x >= y

\* key_package(i): the key package of leaf i, if the leaf is not blank.
TreeKeyPackage(tree, i) ==
    IF i < TreeSize(tree) /\ ~IsBlank(tree, 2 * i)
    THEN Some(NodeAt(tree, 2 * i)[2]) ELSE None

\* find(kp): the leftmost leaf holding kp.
TreeFind(tree, kp) ==
    LET at == { i \in 0..(TreeSize(tree) - 1) : TreeKeyPackage(tree, i) = Some(kp) }
    IN  IF at = {} THEN None ELSE Some(SetMin(at))

\* add_leaf: leftmost blank leaf (extending the tree if there is none),
\* install the key package, blank the direct path.  Every ancestor is blank
\* afterwards, so no parent ever carries an unmerged leaf and the
\* unmerged-leaves list is not represented.
AddLeaf(tree, kp) ==
    LET free == { i \in 0..(TreeSize(tree) - 1) : IsBlank(tree, 2 * i) }
        index == IF free # {} THEN SetMin(free) ELSE TreeSize(tree)
        wide == IF 2 * index + 1 > Len(tree)
                THEN [i \in 1..(2 * index + 1) |-> IF i <= Len(tree) THEN tree[i] ELSE None]
                ELSE tree
        set == [wide EXCEPT ![2 * index + 1] = Some(LeafNode(kp))]
    IN  [tree |-> SetNodes(set, SeqToSet(Ancestors(2 * index, TreeSize(set))), None),
         index |-> index]

\* update_leaf: replace leaf i and blank its direct path.
UpdateLeaf(tree, i, kp) ==
    SetNodes([tree EXCEPT ![2 * i + 1] = Some(LeafNode(kp))],
             SeqToSet(Ancestors(2 * i, TreeSize(tree))), None)

\* blank_path: blank leaf i and every node on its direct path.
BlankPath(tree, i) ==
    SetNodes(tree, {2 * i} \cup SeqToSet(Ancestors(2 * i, TreeSize(tree))), None)

\* truncate: drop trailing blank leaves, keeping at least one leaf.
Truncate(tree) ==
    LET full == { i \in 0..(TreeSize(tree) - 1) : ~IsBlank(tree, 2 * i) }
        last == IF full = {} THEN 0 ELSE SetMax(full)
    IN  IF tree = <<>> THEN tree ELSE SubSeq(tree, 1, 2 * last + 1)

\* resolve: the non-blank cover of the subtree below x.
RECURSIVE Resolve(_, _)
Resolve(tree, x) ==
    IF ~IsBlank(tree, x) THEN <<x>>
    ELSE IF Level(x) = 0 THEN <<>>
    ELSE Resolve(tree, Left(x)) \o Resolve(tree, Right(x, TreeSize(tree)))

\* root_hash: the subtree hash of the root covers every slot of the tree.
RootHash(tree) == <<"treehash", tree>>

\* ------------------------------------------------------------------------
\* TreeKEM private state and encap / decap (spec section 4.3)
\* ------------------------------------------------------------------------
PathStep(secret) == <<"path", secret>>

RECURSIVE IterStep(_, _)
IterStep(secret, k) == IF k = 0 THEN secret ELSE PathStep(IterStep(secret, k - 1))

\* The private state maps nodes to the secret their key pair derives from,
\* kept as a set of <<node, secret>> pairs with at most one pair per node.
MapPut(map, key, val) == { p \in map : p[1] # key } \cup { <<key, val>> }
MapHas(map, key) == \E p \in map : p[1] = key
MapGet(map, key) == (CHOOSE p \in map : p[1] = key)[2]

PrivSolo(index, seed) ==
    [index |-> index, update_secret |-> EmptyBytes, secrets |-> { <<2 * index, seed>> }]

\* implant: secrets from node start up to the root, and the update secret
\* one step past the root.
Implant(priv, start, n, secret) ==
    LET path == <<start>> \o Ancestors(start, n)
        fresh == { <<path[j], IterStep(secret, j - 1)>> : j \in 1..Len(path) }
    IN  [priv EXCEPT
           !.secrets = { p \in @ : p[1] \notin SeqToSet(path) } \cup fresh,
           !.update_secret = IterStep(secret, Len(path))]

PrivJoiner(n, index, seed, intersect, path_secret) ==
    IF IsSome(path_secret)
    THEN Implant(PrivSolo(index, seed), intersect, n, path_secret[1])
    ELSE PrivSolo(index, seed)

SetLeafSecret(priv, secret) ==
    [priv EXCEPT !.secrets = MapPut(@, 2 * priv.index, secret)]

PrivTruncate(priv, n) ==
    [priv EXCEPT !.secrets = { p \in @ : p[1] < NodeWidth(n) }]

\* shared_path_secret(to): the secret held at the common ancestor with to.
SharedPathSecret(priv, to, n) ==
    LET a == CommonAncestor(priv.index, to, n)
    IN  IF MapHas(priv.secrets, a) THEN Some(MapGet(priv.secrets, a)) ELSE None

\* encap: rekey leaf from and its direct path, encrypt every path secret to
\* the resolution of the copath node.  A blank leaf cannot encap.
CanEncap(tree, from) == from < TreeSize(tree) /\ ~IsBlank(tree, 2 * from)
Encap(tree, from, ctx, leaf_secret) ==
    LET n == TreeSize(tree)
        path == <<2 * from>> \o Ancestors(2 * from, n)
        anc == Ancestors(2 * from, n)
        kp == KeyPackage(NodeAt(tree, 2 * from)[2].id, leaf_secret)
        level(j) ==
            LET res == Resolve(tree, Sibling(path[j], n))
            IN  [public_key |-> HpkePub(IterStep(leaf_secret, j)),
                 node_secrets |->
                     [r \in 1..Len(res) |->
                         HpkeSeal(NodePublicKey(NodeAt(tree, res[r])), ctx,
                                  IterStep(leaf_secret, j))]]
        keyed == [i \in 1..Len(tree) |->
                    IF i = 2 * from + 1 THEN Some(LeafNode(kp))
                    ELSE IF \E j \in 1..Len(anc) : anc[j] = i - 1
                    THEN Some(ParentNode(HpkePub(IterStep(leaf_secret,
                             CHOOSE j \in 1..Len(anc) : anc[j] = i - 1))))
                    ELSE tree[i]]
    IN  [tree |-> keyed,
         priv |-> Implant([index |-> from, update_secret |-> EmptyBytes, secrets |-> {}],
                          2 * from, n, leaf_secret),
         path |-> [leaf_key_package |-> kp,
                   nodes |-> [j \in 1..Len(anc) |-> level(j)]]]

\* merge: install the public keys of an UpdatePath sent by leaf from.
Merge(tree, from, path) ==
    LET anc == Ancestors(2 * from, TreeSize(tree))
    IN  [i \in 1..Len(tree) |->
           IF i = 2 * from + 1 THEN Some(LeafNode(path.leaf_key_package))
           ELSE IF \E j \in 1..Len(anc) : anc[j] = i - 1 /\ j <= Len(path.nodes)
           THEN Some(ParentNode(path.nodes[CHOOSE j \in 1..Len(anc) : anc[j] = i - 1].public_key))
           ELSE tree[i]]

\* decap: recover the path secret at the lowest ancestor shared with the
\* sender, re-derive the chain above it and compare the public keys.
\* anc is the sender's path to the root, j the position on it of the shared
\* ancestor, res the resolution of the copath node below it.
DecapCheck(priv, path, anc, j, next) ==
    IF \E k \in j..Len(anc) :
          path.nodes[k].public_key # HpkePub(MapGet(next.secrets, anc[k]))
    THEN [err |-> "ProtocolError", priv |-> priv]
    ELSE [err |-> "", priv |-> next]

DecapOpen(priv, n, ctx, path, anc, j, res, i) ==
    IF ~HpkeOpens(MapGet(priv.secrets, res[i]), ctx, path.nodes[j].node_secrets[i])
    THEN [err |-> "CryptoError", priv |-> priv]
    ELSE DecapCheck(priv, path, anc, j,
                    Implant(priv, anc[j], n, HpkePlain(path.nodes[j].node_secrets[i])))

DecapFind(priv, n, ctx, path, anc, j, res, mine) ==
    IF mine = {} \/ Len(path.nodes[j].node_secrets) # Len(res)
    THEN [err |-> "ProtocolError", priv |-> priv]
    ELSE DecapOpen(priv, n, ctx, path, anc, j, res, SetMin(mine))

DecapAt(priv, n, ctx, path, fpath, anc, j, res) ==
    DecapFind(priv, n, ctx, path, anc, j, res,
              { i \in 1..Len(res) : MapHas(priv.secrets, res[i]) })

DecapOn(priv, tree, n, ctx, path, fpath, anc, hit) ==
    IF hit = {} \/ Len(path.nodes) # Len(anc)
    THEN [err |-> "ProtocolError", priv |-> priv]
    ELSE DecapAt(priv, n, ctx, path, fpath, anc, SetMin(hit),
                 Resolve(tree, Sibling(fpath[SetMin(hit)], n)))

DecapPath(priv, tree, n, ctx, path, fpath, anc, a) ==
    DecapOn(priv, tree, n, ctx, path, fpath, anc, { j \in 1..Len(anc) : anc[j] = a })

\* A receiver whose leaf lies outside the tree shares no ancestor with the
\* sender and so matches no resolution entry.
Decap(priv, from, tree, ctx, path) ==
    IF priv.index >= TreeSize(tree) \/ from >= TreeSize(tree)
    THEN [err |-> "ProtocolError", priv |-> priv]
    ELSE
    DecapPath(priv, tree, TreeSize(tree), ctx, path,
              <<2 * from>> \o Ancestors(2 * from, TreeSize(tree)),
              Ancestors(2 * from, TreeSize(tree)),
              CommonAncestor(priv.index, from, TreeSize(tree)))


\* ------------------------------------------------------------------------
\* Key schedule as the group state uses it (spec section 4.4)
\* ------------------------------------------------------------------------
\* derive_app_secret: expand_with_label over the node and the generation.
DeriveAppSecret(secret, label, node, generation, length) ==
    <<"app", secret, label, node, generation, length>>

\* HashRatchet::HashRatchet: the nonce size is set from the AEAD key size.
HashRatchet(node, base_secret) ==
    [node |-> node, next_secret |-> base_secret, next_generation |-> 0,
     key_size |-> "Nk", nonce_size |-> "Nk", secret_size |-> "Nh", cache |-> {}]

\* The key and the nonce HashRatchet::next derives for its generation.
RatchetKey(r) ==
    DeriveAppSecret(r.next_secret, "app-key", r.node, r.next_generation, r.key_size)
RatchetNonce(r) ==
    DeriveAppSecret(r.next_secret, "app-nonce", r.node, r.next_generation, r.nonce_size)

\* KeyScheduleEpoch(suite): no secret and no base key source at all.
EmptyKeys ==
    [joiner_secret |-> EmptyBytes, epoch_secret |-> EmptyBytes,
     has_source |-> FALSE, chains |-> {}]

KsSecret(keys, label) ==
    IF keys.epoch_secret = EmptyBytes THEN EmptyBytes
    ELSE DeriveSecret(keys.epoch_secret, label, EmptyBytes)

ConfirmationKey(keys) == KsSecret(keys, "confirm")
MembershipKey(keys) == KsSecret(keys, "membership")
InitSecret(keys) == KsSecret(keys, "init")
SenderDataSecret(keys) == KsSecret(keys, "sender data")
EncryptionSecret(keys) == KsSecret(keys, "encryption")

\* KeyScheduleEpoch(suite, joiner_secret, psk, context, size)
KeyScheduleFromJoiner(joiner_secret, ctx) ==
    [joiner_secret |-> joiner_secret,
     epoch_secret |->
         DeriveSecret(Extract(DeriveSecret(joiner_secret, "member", EmptyBytes), ZeroBytes),
                      "epoch", ctx),
     has_source |-> TRUE, chains |-> {}]

\* next as it would be if the forced init secret were ignored.
KeyScheduleNextUnforced(keys, commit_secret, force_init_secret, ctx) ==
    KeyScheduleFromJoiner(Extract(InitSecret(keys), commit_secret), ctx)

\* KeyScheduleEpoch::next(commit_secret, force_init_secret, context, size)
KeyScheduleNext(keys, commit_secret, force_init_secret, ctx) ==
    LET init == IF IsSome(force_init_secret) THEN force_init_secret[1]
                ELSE InitSecret(keys)
    IN  KeyScheduleFromJoiner(Extract(init, commit_secret), ctx)

\* external_init_priv: the HPKE key pair derived from the epoch secret.
ExternalInitSeed(keys) == KsSecret(keys, "external init")
ExternalInitPub(keys) == HpkePub(ExternalInitSeed(keys))

\* KeyScheduleEpoch::external_init: the KEM output and the exported secret.
ExternalInit(external_init_key, eph) ==
    [kem_output |-> <<"kem", external_init_key[2], eph>>,
     init_secret |-> <<"export", external_init_key[2], eph, "MLS 1.0 external init">>]

\* KeyScheduleEpoch::receive_external_init
ReceiveExternalInit(keys, kem_output) ==
    IF kem_output[2] = ExternalInitSeed(keys)
    THEN <<"export", ExternalInitSeed(keys), kem_output[3], "MLS 1.0 external init">>
    ELSE <<"export", "garbage", kem_output>>

\* operator==(KeyScheduleEpoch, KeyScheduleEpoch): the secrets, not the
\* dynamically generated ratchets.
KeysEq(a, b) ==
    /\ a.epoch_secret = b.epoch_secret
    /\ SenderDataSecret(a) = SenderDataSecret(b)
    /\ EncryptionSecret(a) = EncryptionSecret(b)
    /\ ConfirmationKey(a) = ConfirmationKey(b)
    /\ InitSecret(a) = InitSecret(b)

\* sender_data(ciphertext): key and nonce from the sample of the ciphertext.
SenderDataKey(keys, ct) == <<"sd", SenderDataSecret(keys), Sample(ct)>>

\* ------------------------------------------------------------------------
\* Messages (spec section 4.6)
\* ------------------------------------------------------------------------
GroupId == <<"group", 1>>
OtherGroupId == <<"group", 2>>

AddProposal(kp) == <<"add", kp>>
UpdateProposal(kp) == <<"update", kp>>
RemoveProposal(leaf) == <<"remove", leaf>>
\* A proposal whose type is none of Add, Update and Remove.
UnknownProposal == <<"invalid", 0>>
ProposalType(proposal) == proposal[1]

ByRef(ref) == <<"ref", ref>>
Inline(proposal) == <<"inline", proposal>>

MemberSender(index) == <<"member", index>>

ToBeSigned(ctx, pt) == <<"tbs", ctx, pt.group_id, pt.epoch, pt.sender, pt.content>>
CommitContent(pt) == <<"content", pt.group_id, pt.epoch, pt.sender, pt.content>>
CommitAuthData(pt) == <<"auth", pt.signature, pt.confirmation_tag>>
MembershipTag(key, ctx, pt) ==
    Hmac(key, <<"tbm", ToBeSigned(ctx, pt), pt.signature, pt.confirmation_tag>>)
ProposalRef(pt) == <<"hash", pt>>

Plaintext(group_id, epoch, sender, content) ==
    [group_id |-> group_id, epoch |-> epoch, sender |-> sender, content |-> content,
     signature |-> EmptyBytes, confirmation_tag |-> None, membership_tag |-> None,
     decrypted |-> FALSE]

PtSign(pt, ctx, priv) == [pt EXCEPT !.signature = Sign(priv, ToBeSigned(ctx, pt))]
PtSetMembershipTag(pt, ctx, key) ==
    [pt EXCEPT !.membership_tag = Some(MembershipTag(key, ctx, pt))]
\* A plaintext recovered from a ciphertext carries no membership tag.
PtVerifyMembershipTag(pt, ctx, key) ==
    pt.decrypted \/ pt.membership_tag = Some(MembershipTag(key, ctx, pt))
PtVerify(pt, ctx, pub) == Verify(pub, ToBeSigned(ctx, pt), pt.signature)

IsProposal(pt) == pt.content[1] = "proposal"
IsCommit(pt) == pt.content[1] = "commit"
IsApplication(pt) == pt.content[1] = "application"


\* ------------------------------------------------------------------------
\* Group state (src/src/state.cpp)
\* ------------------------------------------------------------------------
InitSeed(id) == <<"init", id>>
InitKeyPackage(id) == KeyPackage(id, InitSeed(id))

GroupContextOf(group_id, epoch, tree, cth) ==
    <<"ctx", group_id, epoch, RootHash(tree), cth>>

\* State::group_context
GroupContext(s) == GroupContextOf(s.group_id, s.epoch, s.tree, s.cth)

\* State::State(group_id, suite, init_priv, sig_priv, key_package)
Founder(id) ==
    LET added == AddLeaf(<<>>, InitKeyPackage(id))
    IN  [group_id |-> GroupId, epoch |-> 0, tree |-> added.tree,
         tree_priv |-> PrivSolo(added.index, InitSeed(id)),
         cth |-> EmptyBytes, ith |-> EmptyBytes, keys |-> EmptyKeys,
         index |-> 0, id |-> id, pending |-> <<>>, update_secrets |-> {}]

\* State::sign
StSign(s, proposal) ==
    LET pt == Plaintext(s.group_id, s.epoch, MemberSender(s.index),
                        <<"proposal", proposal>>)
        signed == PtSign(pt, GroupContext(s), SigPriv(s.id))
    IN  PtSetMembershipTag(signed, GroupContext(s), MembershipKey(s.keys))

\* State::update_proposal: a new init key for the own leaf; the leaf secret
\* is remembered under the hash of the new key package.
StUpdateProposal(s, leaf_secret) ==
    LET kp == KeyPackage(TreeKeyPackage(s.tree, s.index)[1].id, leaf_secret)
    IN  [state |-> [s EXCEPT !.update_secrets = MapPut(@, KpHash(kp), leaf_secret)],
         proposal |-> UpdateProposal(kp)]

\* State::verify_internal: "" when the message verifies, "false" when a
\* check fails, otherwise the error thrown.
VerifyInternal(s, pt) ==
    IF ~PtVerifyMembershipTag(pt, GroupContext(s), MembershipKey(s.keys)) THEN "false"
    ELSE IF TreeKeyPackage(s.tree, pt.sender[2]) = None THEN "InvalidParameterError"
    ELSE IF PtVerify(pt, GroupContext(s), SigPub(TreeKeyPackage(s.tree, pt.sender[2])[1].id))
    THEN "" ELSE "false"

\* State::verify
StVerify(s, pt) ==
    IF pt.sender[1] = "member" THEN VerifyInternal(s, pt) ELSE "NotImplementedError"

\* State::verify_confirmation
VerifyConfirmation(s, confirmation) ==
    Hmac(ConfirmationKey(s.keys), s.cth) = confirmation

\* cache_proposal as it would be if the new entry replaced the cache instead
\* of being appended to it.
CacheProposalReplacing(s, pt) ==
    [s EXCEPT !.pending = <<[ref |-> ProposalRef(pt),
                             proposal |-> pt.content[2],
                             sender |-> pt.sender[2]]>>]

\* State::cache_proposal
CacheProposal(s, pt) ==
    [s EXCEPT !.pending = Append(@, [ref |-> ProposalRef(pt),
                                     proposal |-> pt.content[2],
                                     sender |-> pt.sender[2]])]

\* State::resolve: an inline proposal resolves to itself, a reference to
\* the first cached proposal with that ref, if any.
StResolve(s, id, sender_index) ==
    IF id[1] = "inline"
    THEN Some([ref |-> EmptyBytes, proposal |-> id[2], sender |-> sender_index])
    ELSE LET hits == { i \in 1..Len(s.pending) : s.pending[i].ref = id[2] }
         IN  IF hits = {} THEN None ELSE Some(s.pending[SetMin(hits)])

\* State::must_resolve: value() of an empty optional throws
\* std::bad_optional_access.
MustResolve(s, ids, sender_index) ==
    IF \E i \in 1..Len(ids) : StResolve(s, ids[i], sender_index) = None
    THEN [err |-> "bad_optional_access", proposals |-> <<>>]
    ELSE [err |-> "",
          proposals |-> [i \in 1..Len(ids) |-> StResolve(s, ids[i], sender_index)[1]]]

\* State::apply(proposals, required_type): one pass over the list that
\* applies the proposals of one type, in list order.  acc carries the state,
\* the locations collected so far and the error thrown, if any.
RECURSIVE ApplyPass(_, _, _, _)
ApplyPass(acc, proposals, i, required_type) ==
    IF i > Len(proposals) \/ acc.err # "" THEN acc
    ELSE
    LET cached == proposals[i]
        st == acc.state
        type == ProposalType(cached.proposal)
        step ==
          IF type # required_type THEN acc
          ELSE IF type = "add" THEN
            LET added == AddLeaf(st.tree, cached.proposal[2])
            IN  [acc EXCEPT !.state.tree = added.tree,
                            !.locations = Append(@, added.index)]
          ELSE IF type = "update" THEN
            IF cached.sender >= TreeSize(st.tree) THEN [acc EXCEPT !.err = "InvalidIndex"]
            ELSE IF cached.sender # st.index THEN
              [acc EXCEPT !.state.tree = UpdateLeaf(@, cached.sender, cached.proposal[2])]
            ELSE IF ~MapHas(st.update_secrets, KpHash(cached.proposal[2])) THEN
              [acc EXCEPT !.err = "ProtocolError"]
            ELSE
              \* _update_secrets[cached.ref]: the lookup is by the proposal
              \* ref; operator[] inserts an empty secret under a key it
              \* does not find.
              LET secrets == IF MapHas(st.update_secrets, cached.ref)
                             THEN st.update_secrets
                             ELSE MapPut(st.update_secrets, cached.ref, EmptyBytes)
              IN  [acc EXCEPT
                     !.state.update_secrets = secrets,
                     !.state.tree = UpdateLeaf(@, cached.sender, cached.proposal[2]),
                     !.state.tree_priv = SetLeafSecret(@, MapGet(secrets, cached.ref)),
                     !.locations = Append(@, cached.sender)]
          ELSE IF type = "remove" THEN
            IF cached.proposal[2] >= TreeSize(st.tree) THEN [acc EXCEPT !.err = "InvalidIndex"]
            ELSE [acc EXCEPT !.state.tree = BlankPath(@, cached.proposal[2]),
                             !.locations = Append(@, cached.proposal[2])]
          ELSE [acc EXCEPT !.err = "ProtocolError"]
    IN  ApplyPass(step, proposals, i + 1, required_type)

\* State::apply(proposals): updates, then removes, then adds; then truncate.
ApplyStart(st) == [err |-> "", state |-> st, locations |-> <<>>]

ApplyDone(upd, rem, add, tree) ==
    [err |-> IF upd.err # "" THEN upd.err
             ELSE IF rem.err # "" THEN rem.err ELSE add.err,
     state |-> [add.state EXCEPT !.tree = tree,
                                 !.tree_priv = PrivTruncate(@, TreeSize(tree))],
     has_updates |-> upd.locations # <<>>,
     has_removes |-> rem.locations # <<>>,
     joiner_locations |-> add.locations]

ApplyTruncate(upd, rem, add) == ApplyDone(upd, rem, add, Truncate(add.state.tree))

ApplyAdds(proposals, upd, rem) ==
    ApplyTruncate(upd, rem, ApplyPass(ApplyStart(rem.state), proposals, 1, "add"))

ApplyRemoves(proposals, upd) ==
    ApplyAdds(proposals, upd, ApplyPass(ApplyStart(upd.state), proposals, 1, "remove"))

\* apply(proposals) as it would be if the Update pass ran after the Remove
\* pass.
StApplyUpdatesLast(s, proposals) ==
    LET rem == ApplyPass(ApplyStart(s), proposals, 1, "remove")
        upd == ApplyPass(ApplyStart(rem.state), proposals, 1, "update")
        add == ApplyPass(ApplyStart(upd.state), proposals, 1, "add")
    IN  ApplyDone(upd, rem, add, Truncate(add.state.tree))

\* apply(proposals) as it would be if the Add pass ran before the Remove
\* pass.
StApplyAddsFirst(s, proposals) ==
    LET upd == ApplyPass(ApplyStart(s), proposals, 1, "update")
        add == ApplyPass(ApplyStart(upd.state), proposals, 1, "add")
        rem == ApplyPass(ApplyStart(add.state), proposals, 1, "remove")
    IN  ApplyDone(upd, rem, [add EXCEPT !.state = rem.state], Truncate(rem.state.tree))

StApply(s, proposals) ==
    ApplyRemoves(proposals, ApplyPass(ApplyStart(s), proposals, 1, "update"))

\* successor() as it would be if the cache were copied too.
SuccessorWithCache(s) == s

\* State::successor
Successor(s) == [s EXCEPT !.pending = <<>>]

\* State::update_epoch_secrets
UpdateEpochSecrets(s, commit_secret) ==
    [s EXCEPT !.keys = KeyScheduleNext(s.keys, commit_secret, None, GroupContext(s))]


\* ------------------------------------------------------------------------
\* Welcome (spec section 4.7)
\* ------------------------------------------------------------------------
GroupInfoTbs(gi) ==
    <<"gitbs", gi.group_id, gi.epoch, RootHash(gi.tree), gi.cth, gi.ith,
      gi.confirmation, gi.signer_index>>
GroupInfoSign(gi, index, priv) ==
    [gi EXCEPT !.signer_index = index,
               !.signature = Sign(priv, GroupInfoTbs([gi EXCEPT !.signer_index = index]))]
\* GroupInfo::verify: the signature of the signer's leaf credential.
GroupInfoVerify(gi) ==
    LET kp == TreeKeyPackage(gi.tree, gi.signer_index)
    IN  IsSome(kp) /\ Verify(SigPub(kp[1].id), GroupInfoTbs(gi), gi.signature)

GroupSecrets(joiner_secret, path_secret) == <<"secrets", joiner_secret, path_secret>>
WelcomeKey(joiner_secret) == DeriveSecret(joiner_secret, "welcome", EmptyBytes)

\* Welcome{suite, joiner_secret, psks, group_info}
NewWelcome(joiner_secret, gi) ==
    [joiner_secret |-> joiner_secret, secrets |-> <<>>,
     encrypted_group_info |-> [key |-> WelcomeKey(joiner_secret), info |-> gi]]
\* Welcome::encrypt(kp, path_secret)
WelcomeEncrypt(w, kp, path_secret) ==
    [w EXCEPT !.secrets = Append(@,
        [key_package_hash |-> KpHash(kp),
         encrypted_group_secrets |->
             HpkeSeal(kp.init_key, EmptyBytes, GroupSecrets(w.joiner_secret, path_secret))])]
\* Welcome::find(kp)
WelcomeFind(w, kp) ==
    LET hits == { i \in 1..Len(w.secrets) : w.secrets[i].key_package_hash = KpHash(kp) }
    IN  IF hits = {} THEN None ELSE Some(SetMin(hits))
\* What goes on the wire: the joiner secret is not part of the message.
WelcomeWire(w) == [secrets |-> w.secrets, encrypted_group_info |-> w.encrypted_group_info]

RECURSIVE WelcomeEncryptAll(_, _, _, _)
WelcomeEncryptAll(w, joiners, path_secrets, i) ==
    IF i > Len(joiners) THEN w
    ELSE WelcomeEncryptAll(WelcomeEncrypt(w, joiners[i], path_secrets[i]),
                           joiners, path_secrets, i + 1)

\* ------------------------------------------------------------------------
\* Commit and handle (src/src/state.cpp)
\* ------------------------------------------------------------------------
\* ratchet_and_sign as it would be if the interim transcript hash were taken
\* over the auth data of the commit before its confirmation tag is set.
RatchetAndSignUntagged(next, commit, update_secret, prev_ctx) ==
    LET prev_membership_key == MembershipKey(next.keys)
        pt0 == PtSign(Plaintext(next.group_id, next.epoch, MemberSender(next.index),
                                <<"commit", commit>>),
                      prev_ctx, SigPriv(next.id))
        s1 == [next EXCEPT !.cth = <<"hash", next.ith, CommitContent(pt0)>>,
                           !.epoch = @ + 1]
        s2 == UpdateEpochSecrets(s1, update_secret)
        pt1 == [pt0 EXCEPT !.confirmation_tag = Some(Hmac(ConfirmationKey(s2.keys), s2.cth))]
        pt2 == PtSetMembershipTag(pt1, prev_ctx, prev_membership_key)
    IN  [state |-> [s2 EXCEPT !.ith = <<"hash", s2.cth, CommitAuthData(pt0)>>],
         pt |-> pt2]

\* State::ratchet_and_sign, run on the successor: sign in the old epoch,
\* advance the confirmed transcript hash, the epoch and the key schedule,
\* attach the confirmation and membership tags, advance the interim hash.
RatchetAndSign(next, commit, update_secret, prev_ctx) ==
    LET prev_membership_key == MembershipKey(next.keys)
        pt0 == PtSign(Plaintext(next.group_id, next.epoch, MemberSender(next.index),
                                <<"commit", commit>>),
                      prev_ctx, SigPriv(next.id))
        s1 == [next EXCEPT !.cth = <<"hash", next.ith, CommitContent(pt0)>>,
                           !.epoch = @ + 1]
        s2 == UpdateEpochSecrets(s1, update_secret)
        pt1 == [pt0 EXCEPT !.confirmation_tag = Some(Hmac(ConfirmationKey(s2.keys), s2.cth))]
        pt2 == PtSetMembershipTag(pt1, prev_ctx, prev_membership_key)
    IN  [state |-> [s2 EXCEPT !.ith = <<"hash", s2.cth, CommitAuthData(pt2)>>],
         pt |-> pt2]

AddsOf(proposals) ==
    LET idx == { i \in 1..Len(proposals) : ProposalType(proposals[i]) = "add" }
        RECURSIVE pick(_)
        pick(i) == IF i > Len(proposals) THEN <<>>
                   ELSE (IF i \in idx THEN <<proposals[i][2]>> ELSE <<>>) \o pick(i + 1)
    IN  pick(1)

\* State::commit(leaf_secret, extra_proposals), in the order of the code:
\* the proposal ids and joiners, resolve and apply on the successor, the
\* UpdatePath, ratchet_and_sign, the GroupInfo and the Welcome.
CommitIds(s, extra_proposals) ==
    [i \in 1..Len(s.pending) |-> ByRef(s.pending[i].ref)]
    \o [i \in 1..Len(extra_proposals) |-> Inline(extra_proposals[i])]

CommitJoiners(s, extra_proposals) ==
    AddsOf([i \in 1..Len(s.pending) |-> s.pending[i].proposal]) \o AddsOf(extra_proposals)

\* The GroupInfo as it would be if it carried the interim transcript hash of
\* the committer's previous epoch.
CommitGroupInfoOldInterim(s, next, pt) ==
    GroupInfoSign(
        [group_id |-> next.group_id, epoch |-> next.epoch, tree |-> next.tree,
         cth |-> next.cth, ith |-> s.ith,
         confirmation |-> pt.confirmation_tag[1],
         signer_index |-> 0, signature |-> EmptyBytes],
        next.index, SigPriv(s.id))

CommitGroupInfo(s, next, pt) ==
    GroupInfoSign(
        [group_id |-> next.group_id, epoch |-> next.epoch, tree |-> next.tree,
         cth |-> next.cth, ith |-> next.ith,
         confirmation |-> pt.confirmation_tag[1],
         signer_index |-> 0, signature |-> EmptyBytes],
        next.index, SigPriv(s.id))

CommitWelcome(s, joiners, path_secrets, ras) ==
    [err |-> "", pt |-> ras.pt, next |-> ras.state,
     welcome |-> WelcomeWire(WelcomeEncryptAll(
                    NewWelcome(ras.state.keys.joiner_secret,
                               CommitGroupInfo(s, ras.state, ras.pt)),
                    joiners, path_secrets, 1))]

CommitSign(s, joiners, next1, commit, update_secret, path_secrets) ==
    CommitWelcome(s, joiners, path_secrets,
                  RatchetAndSign(next1, commit, update_secret, GroupContext(s)))

\* The path secrets as they would be if every joiner were given the secret
\* shared with the first joiner's leaf.
CommitWithPathFirstJoiner(s, ids, joiners, applied, enc) ==
    CommitSign(s, joiners,
               [applied.state EXCEPT !.tree = enc.tree, !.tree_priv = enc.priv],
               [proposals |-> ids, path |-> Some(enc.path)],
               enc.priv.update_secret,
               [i \in 1..Len(applied.joiner_locations) |->
                   SharedPathSecret(enc.priv, applied.joiner_locations[1],
                                    TreeSize(enc.tree))])

CommitWithPath(s, ids, joiners, applied, enc) ==
    CommitSign(s, joiners,
               [applied.state EXCEPT !.tree = enc.tree, !.tree_priv = enc.priv],
               [proposals |-> ids, path |-> Some(enc.path)],
               enc.priv.update_secret,
               [i \in 1..Len(applied.joiner_locations) |->
                   SharedPathSecret(enc.priv, applied.joiner_locations[i],
                                    TreeSize(enc.tree))])

CommitApplied(s, leaf_secret, ids, joiners, applied, path_required) ==
    IF applied.err # "" THEN [err |-> applied.err]
    ELSE IF ~path_required
    THEN CommitSign(s, joiners, applied.state, [proposals |-> ids, path |-> None],
                    ZeroBytes, [i \in 1..Len(applied.joiner_locations) |-> None])
    ELSE IF ~CanEncap(applied.state.tree, applied.state.index)
    THEN [err |-> "InvalidParameterError"]
    ELSE CommitWithPath(s, ids, joiners, applied,
                        Encap(applied.state.tree, applied.state.index,
                              GroupContextOf(applied.state.group_id, applied.state.epoch + 1,
                                             applied.state.tree, applied.state.cth),
                              leaf_secret))

CommitApply(s, leaf_secret, ids, joiners, applied) ==
    CommitApplied(s, leaf_secret, ids, joiners, applied,
                  applied.has_updates \/ applied.has_removes \/ ids = <<>>)

CommitResolved(s, leaf_secret, ids, joiners, resolved) ==
    IF resolved.err # "" THEN [err |-> resolved.err]
    ELSE CommitApply(s, leaf_secret, ids, joiners,
                     StApply(Successor(s), resolved.proposals))

CommitResolve(s, leaf_secret, ids, joiners) ==
    CommitResolved(s, leaf_secret, ids, joiners, MustResolve(s, ids, s.index))

StCommit(s, leaf_secret, extra_proposals) ==
    CommitResolve(s, leaf_secret, CommitIds(s, extra_proposals),
                  CommitJoiners(s, extra_proposals))

\* State::handle(pt): err is the error thrown ("" for none), self is the
\* handled state after the call, next the successor returned, if any.
HandleFail(s, e) == [err |-> e, self |-> s, next |-> None]

\* The end of handle() as it would be if the confirmation tag were checked
\* only when the commit carries one.
HandleConfirmOptional(s, pt, next) ==
    IF pt.confirmation_tag # None /\ ~VerifyConfirmation(next, pt.confirmation_tag[1])
    THEN HandleFail(s, "ProtocolError")
    ELSE [err |-> "", self |-> s, next |-> Some(next)]

\* The end of handle() as it would be if the epoch were advanced once more
\* after the confirmation has been verified.
HandleConfirmSkipping(s, pt, next) ==
    IF pt.confirmation_tag = None THEN HandleFail(s, "ProtocolError")
    ELSE IF ~VerifyConfirmation(next, pt.confirmation_tag[1])
    THEN HandleFail(s, "ProtocolError")
    ELSE [err |-> "", self |-> s, next |-> Some([next EXCEPT !.epoch = @ + 1])]

HandleConfirm(s, pt, next) ==
    IF pt.confirmation_tag = None THEN HandleFail(s, "ProtocolError")
    ELSE IF ~VerifyConfirmation(next, pt.confirmation_tag[1])
    THEN HandleFail(s, "ProtocolError")
    ELSE [err |-> "", self |-> s, next |-> Some(next)]

\* The transcript update of handle() as it would be if the interim hash
\* were extended by the commit content instead of its authentication data.
HandleTranscriptContent(s, pt, next1, update_secret, cth) ==
    HandleConfirm(s, pt,
        UpdateEpochSecrets([next1 EXCEPT !.cth = cth,
                                         !.ith = <<"hash", cth, CommitContent(pt)>>,
                                         !.epoch = @ + 1],
                           update_secret))

HandleTranscript(s, pt, next1, update_secret, cth) ==
    HandleConfirm(s, pt,
        UpdateEpochSecrets([next1 EXCEPT !.cth = cth,
                                         !.ith = <<"hash", cth, CommitAuthData(pt)>>,
                                         !.epoch = @ + 1],
                           update_secret))

HandleRatchet(s, pt, next1, update_secret) ==
    HandleTranscript(s, pt, next1, update_secret, <<"hash", next1.ith, CommitContent(pt)>>)

HandleDecap(s, pt, next0, dec) ==
    IF dec.err # "" THEN HandleFail(s, dec.err)
    ELSE HandleRatchet(s, pt,
                       [next0 EXCEPT !.tree_priv = dec.priv,
                                     !.tree = Merge(@, pt.sender[2], pt.content[2].path[1])],
                       dec.priv.update_secret)

HandleApplied(s, pt, applied) ==
    IF applied.err # "" THEN HandleFail(s, applied.err)
    ELSE IF pt.content[2].path = None
    THEN HandleRatchet(s, pt, applied.state, ZeroBytes)
    ELSE HandleDecap(s, pt, applied.state,
                     Decap(applied.state.tree_priv, pt.sender[2], applied.state.tree,
                           GroupContextOf(applied.state.group_id, applied.state.epoch + 1,
                                          applied.state.tree, applied.state.cth),
                           pt.content[2].path[1]))

HandleResolved(s, pt, resolved) ==
    IF resolved.err # "" THEN HandleFail(s, resolved.err)
    ELSE HandleApplied(s, pt, StApply(Successor(s), resolved.proposals))

\* handle() as it would be if a commit from the member's own leaf were
\* processed like any other.
HandleVerifiedOwnCommit(s, pt, verified) ==
    IF verified = "false" THEN HandleFail(s, "ProtocolError")
    ELSE IF verified # "" THEN HandleFail(s, verified)
    ELSE IF IsProposal(pt) THEN [err |-> "", self |-> CacheProposal(s, pt), next |-> None]
    ELSE IF ~IsCommit(pt) THEN HandleFail(s, "InvalidParameterError")
    ELSE HandleResolved(s, pt, MustResolve(s, pt.content[2].proposals, pt.sender[2]))

\* handle() as it would be if a proposal were cached before its signature
\* is checked.
HandleVerifiedCacheFirst(s, pt, verified) ==
    IF verified = "false"
    THEN [err |-> "ProtocolError",
          self |-> IF IsProposal(pt) THEN CacheProposal(s, pt) ELSE s,
          next |-> None]
    ELSE IF verified # "" THEN HandleFail(s, verified)
    ELSE IF IsProposal(pt) THEN [err |-> "", self |-> CacheProposal(s, pt), next |-> None]
    ELSE IF ~IsCommit(pt) THEN HandleFail(s, "InvalidParameterError")
    ELSE IF pt.sender[2] = s.index THEN HandleFail(s, "InvalidParameterError")
    ELSE HandleResolved(s, pt, MustResolve(s, pt.content[2].proposals, pt.sender[2]))

HandleVerified(s, pt, verified) ==
    IF verified = "false" THEN HandleFail(s, "ProtocolError")
    ELSE IF verified # "" THEN HandleFail(s, verified)
    ELSE IF IsProposal(pt) THEN [err |-> "", self |-> CacheProposal(s, pt), next |-> None]
    ELSE IF ~IsCommit(pt) THEN HandleFail(s, "InvalidParameterError")
    ELSE IF pt.sender[2] = s.index THEN HandleFail(s, "InvalidParameterError")
    ELSE HandleResolved(s, pt, MustResolve(s, pt.content[2].proposals, pt.sender[2]))

StHandle(s, pt) ==
    IF pt.group_id # s.group_id THEN HandleFail(s, "InvalidParameterError")
    ELSE IF pt.epoch # s.epoch THEN HandleFail(s, "InvalidParameterError")
    ELSE HandleVerified(s, pt, StVerify(s, pt))

\* State::State(init_priv, sig_priv, kp, welcome)
StJoin(id, init_seed, kp, welcome) ==
    LET kpi == WelcomeFind(welcome, kp)
        secrets_ct == welcome.secrets[kpi[1]].encrypted_group_secrets
        secrets == HpkePlain(secrets_ct)
        joiner_secret == secrets[2]
        path_secret == secrets[3]
        sealed == welcome.encrypted_group_info
        gi == sealed.info
        index == TreeFind(gi.tree, kp)
        anc == CommonAncestor(index[1], gi.signer_index, TreeSize(gi.tree))
        s0 == [group_id |-> gi.group_id, epoch |-> gi.epoch, tree |-> gi.tree,
               tree_priv |-> PrivJoiner(TreeSize(gi.tree), index[1], init_seed, anc,
                                        path_secret),
               cth |-> gi.cth, ith |-> gi.ith, keys |-> EmptyKeys,
               index |-> index[1], id |-> id, pending |-> <<>>, update_secrets |-> {}]
        s1 == [s0 EXCEPT !.keys = KeyScheduleFromJoiner(joiner_secret, GroupContext(s0))]
    IN  IF kpi = None THEN [err |-> "InvalidParameterError"]
        ELSE IF ~HpkeOpens(init_seed, EmptyBytes, secrets_ct) THEN [err |-> "CryptoError"]
        ELSE IF sealed.key # WelcomeKey(joiner_secret) THEN [err |-> "CryptoError"]
        ELSE IF ~GroupInfoVerify(gi) THEN [err |-> "InvalidParameterError"]
        ELSE IF index = None THEN [err |-> "InvalidParameterError"]
        ELSE IF ~VerifyConfirmation(s1, gi.confirmation) THEN [err |-> "ProtocolError"]
        ELSE [err |-> "", state |-> s1]

\* operator==(State, State)
StateEq(a, b) ==
    /\ a.group_id = b.group_id
    /\ a.epoch = b.epoch
    /\ a.tree = b.tree
    /\ a.cth = b.cth
    /\ a.ith = b.ith
    /\ KeysEq(a.keys, b.keys)


\* ------------------------------------------------------------------------
\* The tree of base secrets (src/src/key_schedule.cpp)
\* ------------------------------------------------------------------------
\* TreeBaseKeySource::TreeBaseKeySource: one slot per node, all empty but
\* the root's, which holds the application secret.
TreeBaseKeySource(group_size, application_secret) ==
    [size |-> group_size,
     secrets |-> [x \in 0..(NodeWidth(group_size) - 1) |->
                     IF x = Root(group_size) THEN application_secret ELSE EmptyBytes]]

\* dirpath in get(): the sender's node, its direct path, the root.
SourcePath(src, sender) ==
    <<2 * sender>> \o DirectPath(2 * sender, src.size) \o <<Root(src.size)>>

\* The first loop of get(): the position (from 0) of the first node of the
\* path that holds a secret, or the length of the path when none does.
RECURSIVE FirstPopulated(_, _, _)
FirstPopulated(secrets, path, curr) ==
    IF curr < Len(path) /\ secrets[path[curr + 1]] = EmptyBytes
    THEN FirstPopulated(secrets, path, curr + 1)
    ELSE curr

\* One round as it would be if both children were derived under the
\* parent's index.
DeriveChildrenUnlabelled(secrets, node, size) ==
    [[secrets EXCEPT ![Left(node)] =
          DeriveAppSecret(secrets[node], "tree", node, 0, "Nh")]
       EXCEPT ![Right(node, size)] =
          DeriveAppSecret(secrets[node], "tree", node, 0, "Nh")]

\* One round of the second loop: both children of the node from its secret.
DeriveChildren(secrets, node, size) ==
    [[secrets EXCEPT ![Left(node)] =
          DeriveAppSecret(secrets[node], "tree", Left(node), 0, "Nh")]
       EXCEPT ![Right(node, size)] =
          DeriveAppSecret(secrets[node], "tree", Right(node, size), 0, "Nh")]

\* The second loop of get(): derive down from the populated node.
RECURSIVE DeriveDown(_, _, _, _)
DeriveDown(secrets, path, curr, size) ==
    IF curr > 0
    THEN DeriveDown(DeriveChildren(secrets, path[curr + 1], size), path, curr - 1, size)
    ELSE secrets

\* The last loop as it would be if the root were left out.
ZeroizeBelowRoot(secrets, path) ==
    [x \in DOMAIN secrets |->
        IF x \in SeqToSet(SubSeq(path, 1, Len(path) - 1)) THEN EmptyBytes ELSE secrets[x]]

\* The last loop of get(): zeroize every node of the path.
ZeroizePath(secrets, path) ==
    [x \in DOMAIN secrets |-> IF x \in SeqToSet(path) THEN EmptyBytes ELSE secrets[x]]

SourceGot(src, sender, path, derived) ==
    [err |-> "", out |-> derived[2 * sender],
     source |-> [src EXCEPT !.secrets = ZeroizePath(derived, path)]]

\* TreeBaseKeySource::get(sender).  The test after the first loop is
\* curr > dirpath.size(), which never holds: when no node of the path holds
\* a secret, curr is dirpath.size() and the second loop reads dirpath[curr],
\* one past the end.  ub names the outcome of that undefined behaviour: the
\* process stops ("crash"), or the call goes on with a stray secret.
SourceGetAt(src, sender, path, curr, ub) ==
    IF curr > Len(path)
    THEN [err |-> "InvalidParameterError", source |-> src]
    ELSE IF curr = Len(path)
    THEN IF ub = "crash" THEN [err |-> "crash", source |-> src]
         ELSE [err |-> "", out |-> <<"stray", sender>>,
               source |-> [src EXCEPT !.secrets = ZeroizePath(@, path)]]
    ELSE SourceGot(src, sender, path, DeriveDown(src.secrets, path, curr, src.size))

SourceGet(src, sender, ub) ==
    SourceGetAt(src, sender, SourcePath(src, sender),
                FirstPopulated(src.secrets, SourcePath(src, sender), 0), ub)

\* ------------------------------------------------------------------------
\* Message protection (src/src/state.cpp, src/src/key_schedule.cpp)
\* ------------------------------------------------------------------------
HasChain(keys, leaf) == \E c \in keys.chains : c[1] = leaf
GetChain(keys, leaf) == (CHOOSE c \in keys.chains : c[1] = leaf)[2]
PutChain(keys, leaf, r) ==
    [keys EXCEPT !.chains = { d \in @ : d[1] # leaf } \cup { <<leaf, r>> }]

\* GroupKeySource::chain(sender): the ratchet of a sender, created from the
\* base key source on first use.  Without a base key source the call goes
\* through a null pointer; ub names the outcome of that undefined
\* behaviour: the process stops ("crash") or an arbitrary base secret.
NeedsSource(keys, leaf) == ~HasChain(keys, leaf) /\ ~keys.has_source
WithChain(keys, leaf) ==
    IF HasChain(keys, leaf) THEN keys
    ELSE PutChain(keys, leaf,
           HashRatchet(2 * leaf,
                       IF keys.has_source THEN <<"base", EncryptionSecret(keys), leaf>>
                       ELSE <<"garbage", EmptyBytes, leaf>>))

\* HashRatchet::next as it would be if the derived key and nonce were
\* returned without being put into the cache.
RatchetNextUncached(r) ==
    [generation |-> r.next_generation,
     keys |-> <<RatchetKey(r), RatchetNonce(r)>>,
     ratchet |->
        [r EXCEPT !.next_generation = @ + 1,
                  !.next_secret = DeriveAppSecret(r.next_secret, "app-secret", r.node,
                                                  r.next_generation, r.secret_size)]]

\* HashRatchet::next: derive key, nonce and the next secret from the current
\* secret, advance, and keep the key and nonce in the cache.
RatchetNext(r) ==
    [generation |-> r.next_generation,
     keys |-> <<RatchetKey(r), RatchetNonce(r)>>,
     ratchet |->
        [r EXCEPT !.next_generation = @ + 1,
                  !.next_secret = DeriveAppSecret(r.next_secret, "app-secret", r.node,
                                                  r.next_generation, r.secret_size),
                  !.cache = MapPut(@, r.next_generation,
                                   <<RatchetKey(r), RatchetNonce(r)>>)]]

\* The loop of get as it would be if the generations it passes were not kept.
RECURSIVE RatchetForwardUncached(_, _)
RatchetForwardUncached(r, generation) ==
    IF r.next_generation < generation
    THEN RatchetForwardUncached(RatchetNextUncached(r).ratchet, generation)
    ELSE r

\* The loop of HashRatchet::get: next() until the ratchet stands at generation.
RECURSIVE RatchetForward(_, _)
RatchetForward(r, generation) ==
    IF r.next_generation < generation
    THEN RatchetForward(RatchetNext(r).ratchet, generation)
    ELSE r

\* The end of get as it would be if the ratchet were left standing at the
\* generation it has just returned.
RatchetGotRewound(n) ==
    [err |-> "", keys |-> n.keys,
     ratchet |-> [n.ratchet EXCEPT !.next_generation = @ - 1]]

\* The end of HashRatchet::get: the key and nonce of the last next().
RatchetGot(n) == [err |-> "", keys |-> n.keys, ratchet |-> n.ratchet]

\* HashRatchet::get(generation): a cached generation is returned as it is,
\* a generation behind the ratchet is expired, anything else fast-forwards.
RatchetGet(r, generation) ==
    IF MapHas(r.cache, generation)
    THEN [err |-> "", keys |-> MapGet(r.cache, generation), ratchet |-> r]
    ELSE IF r.next_generation > generation
    THEN [err |-> "ProtocolError", ratchet |-> r]
    ELSE RatchetGot(RatchetNext(RatchetForward(r, generation)))

\* HashRatchet::erase as it would be if it did nothing.
RatchetEraseNothing(r, generation) == r

\* HashRatchet::erase as it would be if only the key were wiped.
RatchetEraseKeyOnly(r, generation) ==
    IF MapHas(r.cache, generation)
    THEN [r EXCEPT !.cache = MapPut(@, generation,
                                    <<EmptyBytes, MapGet(r.cache, generation)[2]>>)]
    ELSE r

\* HashRatchet::erase as it would be if the entry were zeroized and left in
\* the cache.
RatchetEraseZeroing(r, generation) ==
    IF MapHas(r.cache, generation)
    THEN [r EXCEPT !.cache = MapPut(@, generation, <<ZeroBytes, ZeroBytes>>)]
    ELSE r

\* HashRatchet::erase
RatchetErase(r, generation) ==
    [r EXCEPT !.cache = { e \in @ : e[1] # generation }]

ContentAad(group_id, epoch, content_type) == <<"content-aad", group_id, epoch, content_type>>
SenderDataAad(group_id, epoch, content_type) == <<"sender-aad", group_id, epoch, content_type>>
\* apply_reuse_guard
ApplyReuseGuard(guard, nonce) == <<"xor", nonce, guard>>
\* MLSPlaintext::marshal_content
MarshalContent(pt) == <<"inner", pt.content, pt.signature, pt.confirmation_tag>>

\* State::encrypt
StEncrypt(s, pt, reuse_guard, ub) ==
    LET keys1 == WithChain(s.keys, s.index)
        n == RatchetNext(GetChain(keys1, s.index))
        generation == n.generation
        keys2 == PutChain(keys1, s.index, n.ratchet)
        content_type == pt.content[1]
        content_ct == AeadSeal(n.keys[1],
                               ApplyReuseGuard(reuse_guard, n.keys[2]),
                               ContentAad(s.group_id, s.epoch, content_type),
                               MarshalContent(pt))
        sd_key == SenderDataKey(s.keys, content_ct)
        ct == [group_id |-> s.group_id, epoch |-> s.epoch, content_type |-> content_type,
               encrypted_sender_data |->
                   AeadSeal(sd_key, sd_key,
                            SenderDataAad(s.group_id, s.epoch, content_type),
                            <<"sender-data", s.index, generation, reuse_guard>>),
               ciphertext |-> content_ct]
    IN  IF NeedsSource(s.keys, s.index) /\ ub = "crash"
        THEN [err |-> "crash", state |-> s]
        ELSE [err |-> "", state |-> [s EXCEPT !.keys = keys2], ct |-> ct]

\* State::protect
StProtect(s, data, reuse_guard, ub) ==
    LET mpt == Plaintext(s.group_id, s.epoch, MemberSender(s.index),
                         <<"application", data>>)
        signed == PtSign(mpt, GroupContext(s), SigPriv(s.id))
    IN  StEncrypt(s, PtSetMembershipTag(signed, GroupContext(s), MembershipKey(s.keys)),
                  reuse_guard, ub)

\* State::decrypt.  The generation key is fetched and erased before the
\* content is opened.
StDecrypt(s, ct, ub) ==
    LET fail(e, st) == [err |-> e, state |-> st]
        sd_key == SenderDataKey(s.keys, ct.ciphertext)
        sd_ok == AeadOpens(sd_key, sd_key,
                           SenderDataAad(ct.group_id, ct.epoch, ct.content_type),
                           ct.encrypted_sender_data)
        sender_data == AeadPlain(ct.encrypted_sender_data)
        sender == sender_data[2]
        generation == sender_data[3]
        keys1 == WithChain(s.keys, sender)
        got == RatchetGet(GetChain(keys1, sender), generation)
        keys2 == PutChain(keys1, sender, RatchetErase(got.ratchet, generation))
        opened == AeadOpens(got.keys[1],
                            ApplyReuseGuard(sender_data[4], got.keys[2]),
                            ContentAad(ct.group_id, ct.epoch, ct.content_type),
                            ct.ciphertext)
        inner == AeadPlain(ct.ciphertext)
    IN  IF ct.group_id # s.group_id THEN fail("InvalidParameterError", s)
        ELSE IF ct.epoch # s.epoch THEN fail("InvalidParameterError", s)
        ELSE IF ~sd_ok THEN fail("ProtocolError", s)
        ELSE IF NeedsSource(s.keys, sender) /\ ub = "crash" THEN fail("crash", s)
        ELSE IF got.err # "" THEN fail(got.err, [s EXCEPT !.keys = keys1])
        ELSE IF ~opened THEN fail("ProtocolError", [s EXCEPT !.keys = keys2])
        ELSE [err |-> "", state |-> [s EXCEPT !.keys = keys2],
              pt |-> [group_id |-> s.group_id, epoch |-> s.epoch,
                      sender |-> MemberSender(sender), content |-> inner[2],
                      signature |-> inner[3], confirmation_tag |-> inner[4],
                      membership_tag |-> None, decrypted |-> TRUE]]

\* State::unprotect
StUnprotect(s, ct, ub) ==
    LET dec == StDecrypt(s, ct, ub)
        verified == StVerify(dec.state, dec.pt)
    IN  IF dec.err # "" THEN [err |-> dec.err, state |-> dec.state]
        ELSE IF verified = "false" THEN [err |-> "ProtocolError", state |-> dec.state]
        ELSE IF verified # "" THEN [err |-> verified, state |-> dec.state]
        ELSE IF ~IsApplication(dec.pt) THEN [err |-> "ProtocolError", state |-> dec.state]
        ELSE [err |-> "", state |-> dec.state, data |-> dec.pt.content[2]]


\* ------------------------------------------------------------------------
\* The group as a state machine: members, messages in flight, operations
\* ------------------------------------------------------------------------
Members == {1, 2, 3}
\* The leaf secret a caller draws for an update or a commit is fresh: no two
\* members, epochs or purposes share one.
LeafSecrets(s, purpose) == { <<"leaf", s.id, s.epoch, purpose>> }
AppData == { "hello" }
ReuseGuards == { 0 }
UbOutcomes == { "crash", "garbage" }

VARIABLES
    states,     \* member -> None or Some(state): the state object it holds
    network,    \* handshake plaintexts sent so far
    welcomes,   \* Welcome messages sent so far
    ciphers,    \* application ciphertexts sent so far
    lastOp,     \* the operation of the last step and how it ended
    ratchet,    \* a HashRatchet object driven on its own
    erased,     \* the generations erased from it after they were produced
    lastKey,    \* the last call on it and what it returned
    source,     \* a TreeBaseKeySource object driven on its own
    requested   \* the leaves requested from it so far, in order

gvars == <<states, network, welcomes, ciphers, lastOp>>
rvars == <<ratchet, erased, lastKey, source, requested>>
vars == <<states, network, welcomes, ciphers, lastOp, ratchet, erased, lastKey,
          source, requested>>

Joined(m) == states[m] # None
St(m) == states[m][1]
Op(op, who, err, arg) == [op |-> op, err |-> err]

TreeIds(tree) ==
    { NodeAt(tree, 2 * i)[2].id : i \in { l \in 0..(TreeSize(tree) - 1) : ~IsBlank(tree, 2 * l) } }

\* What a peer or the wire can make of a plaintext in flight.  "group",
\* "epoch" and "sig" change bytes of the message; "badpath", "notag" and
\* "badtag" are sent by a misbehaving sender, who signs and tags them.
Resign(pt, content, confirmation_tag) ==
    LET ctx == pt.signature[3][2]
        key == pt.membership_tag[1][2]
        signed == PtSign([pt EXCEPT !.content = content], ctx, SigPriv(pt.signature[2]))
    IN  PtSetMembershipTag([signed EXCEPT !.confirmation_tag = confirmation_tag], ctx, key)

TamperPath(path) ==
    [path EXCEPT !.nodes =
        [j \in 1..Len(path.nodes) |->
            [path.nodes[j] EXCEPT !.node_secrets =
                [i \in 1..Len(path.nodes[j].node_secrets) |->
                    HpkeTamper(path.nodes[j].node_secrets[i])]]]]

Variants == { "none", "group", "epoch", "sig", "badpath", "notag", "badtag" }

Variant(pt, v) ==
    IF v = "group" THEN [pt EXCEPT !.group_id = OtherGroupId]
    ELSE IF v = "epoch" THEN [pt EXCEPT !.epoch = @ + 1]
    ELSE IF v = "sig" THEN [pt EXCEPT !.signature = BadSignature]
    ELSE IF v = "badpath" /\ IsCommit(pt) /\ IsSome(pt.content[2].path)
    THEN Resign(pt, <<"commit", [pt.content[2] EXCEPT !.path = Some(TamperPath(@[1]))]>>,
                pt.confirmation_tag)
    ELSE IF v = "notag" /\ IsCommit(pt) THEN Resign(pt, pt.content, None)
    ELSE IF v = "badtag" /\ IsCommit(pt) THEN Resign(pt, pt.content, Some(EmptyBytes))
    ELSE pt

HandleInputs ==
    { Variant(pt, v) : pt \in network, v \in Variants }

CipherVariants == { 0, 1, 2 }
CipherVariant(ct, how) == [ct EXCEPT !.ciphertext = AeadTamper(@, how)]
UnprotectInputs == { CipherVariant(ct, how) : ct \in ciphers, how \in CipherVariants }

\* The proposals a committer may pass inline: none, or one or two Adds of
\* members that are not in its tree.
ExtraChoices(s) ==
    LET out == Members \ TreeIds(s.tree)
    IN  { <<>> }
        \cup { <<AddProposal(InitKeyPackage(j))>> : j \in { x \in out : x = SetMin(out) } }

Init ==
    /\ states = [m \in Members |-> IF m = 1 THEN Some(Founder(1)) ELSE None]
    /\ network = {}
    /\ welcomes = {}
    /\ ciphers = {}
    /\ lastOp = Op("init", 0, "", "")
    /\ ratchet = HashRatchet(0, EmptyBytes)
    /\ erased = {}
    /\ lastKey = [op |-> "init", err |-> "", generation |-> 0, keys |-> None]
    /\ source = TreeBaseKeySource(1, EmptyBytes)
    /\ requested = <<>>

InFlight == Cardinality({ q \in network : IsProposal(q) }) + Cardinality(ciphers)

Send(pt) == /\ IsProposal(pt) => InFlight < MaxInFlight
            /\ network' = network \cup {pt}

\* State::add
ProposeAdd(m, j) ==
    /\ Joined(m)
    /\ UNCHANGED rvars
    /\ j \notin TreeIds(St(m).tree)
    /\ Send(StSign(St(m), AddProposal(InitKeyPackage(j))))
    /\ lastOp' = Op("add", m, "", "")
    /\ UNCHANGED <<states, welcomes, ciphers>>

\* State::update
ProposeUpdate(m, leaf_secret) ==
    /\ Joined(m)
    /\ UNCHANGED rvars
    /\ LET r == StUpdateProposal(St(m), leaf_secret)
       IN  /\ Send(StSign(r.state, r.proposal))
           /\ states' = [states EXCEPT ![m] = Some(r.state)]
    /\ lastOp' = Op("update", m, "", "")
    /\ UNCHANGED <<welcomes, ciphers>>

\* State::remove
ProposeRemove(m, leaf) ==
    /\ Joined(m)
    /\ UNCHANGED rvars
    /\ leaf < TreeSize(St(m).tree)
    /\ ~IsBlank(St(m).tree, 2 * leaf)
    /\ leaf # St(m).index
    /\ Send(StSign(St(m), RemoveProposal(leaf)))
    /\ lastOp' = Op("remove", m, "", "")
    /\ UNCHANGED <<states, welcomes, ciphers>>

\* State::commit; the committer adopts the successor it is handed.
Commit(m, leaf_secret, extra) ==
    /\ Joined(m)
    /\ UNCHANGED rvars
    /\ St(m).epoch < MaxEpoch
    /\ LET r == StCommit(St(m), leaf_secret, extra)
       IN  IF r.err # ""
           THEN /\ lastOp' = Op("commit", m, r.err, "")
                /\ UNCHANGED <<states, network, welcomes>>
           ELSE /\ Send(r.pt)
                /\ states' = [states EXCEPT ![m] = Some(r.next)]
                /\ welcomes' = IF r.welcome.secrets = <<>> THEN welcomes
                               ELSE welcomes \cup {r.welcome}
                /\ lastOp' = Op("commit", m, "", "")
    /\ UNCHANGED ciphers

\* State::handle; the caller adopts the successor when one is returned.
Handle(m, pt) ==
    /\ Joined(m)
    /\ UNCHANGED rvars
    /\ LET r == StHandle(St(m), pt)
       IN  /\ Len(r.self.pending) <= MaxPending
           /\ states' = [states EXCEPT ![m] = IF IsSome(r.next) THEN r.next ELSE Some(r.self)]
           /\ lastOp' = Op(IF IsCommit(pt) THEN "handle-commit" ELSE "handle-proposal",
                           m, r.err, "")
    /\ UNCHANGED <<network, welcomes, ciphers>>

\* State::State(init_priv, sig_priv, kp, welcome)
Join(m, w) ==
    /\ ~Joined(m)
    /\ UNCHANGED rvars
    /\ LET r == StJoin(m, InitSeed(m), InitKeyPackage(m), w)
       IN  /\ states' = [states EXCEPT ![m] = IF r.err = "" THEN Some(r.state) ELSE None]
           /\ lastOp' = Op("join", m, r.err, "")
    /\ UNCHANGED <<network, welcomes, ciphers>>

\* State::protect
Protect(m, data, guard, ub) ==
    /\ Joined(m)
    /\ UNCHANGED rvars
    /\ InFlight < MaxInFlight
    /\ LET r == StProtect(St(m), data, guard, ub)
       IN  /\ states' = [states EXCEPT ![m] = Some(r.state)]
           /\ ciphers' = IF r.err = "" THEN ciphers \cup {r.ct} ELSE ciphers
           /\ lastOp' = Op("protect", m, r.err, "")
    /\ UNCHANGED <<network, welcomes>>

\* State::unprotect
Unprotect(m, ct, how, ub) ==
    /\ Joined(m)
    /\ UNCHANGED rvars
    /\ LET r == StUnprotect(St(m), CipherVariant(ct, how), ub)
       IN  /\ states' = [states EXCEPT ![m] = Some(r.state)]
           /\ lastOp' = Op("unprotect", m, r.err,
                           IF how = 0 THEN "none" ELSE IF how = 1 THEN "tail" ELSE "sample")
    /\ UNCHANGED <<network, welcomes, ciphers>>

Next ==
    \/ \E m \in Members, j \in Members : ProposeAdd(m, j)
    \/ \E m \in { x \in Members : Joined(x) } :
          \E ls \in LeafSecrets(St(m), "update") : ProposeUpdate(m, ls)
    \/ \E m \in Members, leaf \in 0..2 : ProposeRemove(m, leaf)
    \/ \E m \in { x \in Members : Joined(x) } :
          \E ls \in LeafSecrets(St(m), "commit"), extra \in ExtraChoices(St(m)) :
             Commit(m, ls, extra)
    \/ \E m \in Members, pt \in network : Handle(m, pt)
    \/ \E m \in Members, w \in welcomes : Join(m, w)
    \/ \E m \in Members, d \in AppData, g \in ReuseGuards, ub \in UbOutcomes :
          Protect(m, d, g, ub)
    \/ \E m \in Members, ct \in ciphers, how \in CipherVariants, ub \in UbOutcomes :
          Unprotect(m, ct, how, ub)

Spec == Init /\ [][Next]_vars

\* ------------------------------------------------------------------------
\* One hash ratchet under any sequence of next, get and erase calls
\* (src/src/key_schedule.cpp)
\* ------------------------------------------------------------------------
Generations == 0..MaxGeneration
RatchetNodes == { 0, 2 }
BaseSecrets == { <<"base", 1>>, <<"base", 2>> }

KeyCall(op, err, generation, keys) ==
    [op |-> op, err |-> err, generation |-> generation, keys |-> keys]

RatchetInit ==
    /\ states = [m \in Members |-> None]
    /\ network = {}
    /\ welcomes = {}
    /\ ciphers = {}
    /\ lastOp = Op("init", 0, "", "")
    /\ \E node \in RatchetNodes, base \in BaseSecrets : ratchet = HashRatchet(node, base)
    /\ erased = {}
    /\ lastKey = KeyCall("init", "", 0, None)
    /\ source = TreeBaseKeySource(1, EmptyBytes)
    /\ requested = <<>>

\* HashRatchet::next
NextKey ==
    /\ ratchet.next_generation <= MaxGeneration
    /\ ratchet' = RatchetNext(ratchet).ratchet
    /\ lastKey' = KeyCall("next", "", RatchetNext(ratchet).generation,
                          Some(RatchetNext(ratchet).keys))
    /\ UNCHANGED <<erased, source, requested, gvars>>

\* HashRatchet::get
GetKey(generation) ==
    /\ ratchet' = RatchetGet(ratchet, generation).ratchet
    /\ lastKey' = KeyCall("get", RatchetGet(ratchet, generation).err, generation,
                          IF RatchetGet(ratchet, generation).err = ""
                          THEN Some(RatchetGet(ratchet, generation).keys) ELSE None)
    /\ UNCHANGED <<erased, source, requested, gvars>>

\* HashRatchet::erase
EraseKey(generation) ==
    /\ ratchet' = RatchetErase(ratchet, generation)
    /\ erased' = IF MapHas(ratchet.cache, generation) THEN erased \cup {generation}
                 ELSE erased
    /\ lastKey' = KeyCall("erase", "", generation, None)
    /\ UNCHANGED <<source, requested, gvars>>

RatchetStep ==
    \/ NextKey
    \/ \E generation \in Generations : GetKey(generation)
    \/ \E generation \in Generations : EraseKey(generation)

RatchetSpec == RatchetInit /\ [][RatchetStep]_vars

\* ------------------------------------------------------------------------
\* State::apply and State::commit on the states of a small group, for every
\* short proposal list (src/src/state.cpp)
\* ------------------------------------------------------------------------
\* The state a member reaches by committing an Add of id.
Grown(s, id) ==
    StCommit(s, <<"leaf", s.id, s.epoch, "commit">>, <<AddProposal(InitKeyPackage(id))>>)

Pair == Grown(Founder(1), 2)
Trio == Grown(Pair.next, 3)
PairJoiner == StJoin(2, InitSeed(2), InitKeyPackage(2), Pair.welcome).state

\* The state after the member has sent a proposal and handled it.
Proposed(s, proposal) == StHandle(s, StSign(s, proposal)).self
SelfUpdated(r) == Proposed(r.state, r.proposal)

\* The state after the member has handled the Update another member sent.
PeerUpdated(s, r) == StHandle(s, StSign(r.state, r.proposal)).self

ApplyStates ==
    { Pair.next, Trio.next, PairJoiner,
      Proposed(Pair.next, RemoveProposal(1)),
      Proposed(Trio.next, RemoveProposal(2)),
      Proposed(PairJoiner, AddProposal(InitKeyPackage(3))),
      SelfUpdated(StUpdateProposal(Founder(1), <<"leaf", 1, 0, "update">>)),
      SelfUpdated(StUpdateProposal(Pair.next, <<"leaf", 1, 1, "update">>)),
      PeerUpdated(PairJoiner, StUpdateProposal(Pair.next, <<"leaf", 1, 1, "update">>)),
      SelfUpdated(StUpdateProposal(
          SelfUpdated(StUpdateProposal(Pair.next, <<"leaf", 1, 1, "update">>)),
          <<"leaf", 1, 1, "again">>)) }

\* The proposals a list handed to apply() is drawn from: the cached ones, an
\* Add for every identity and a Remove for every leaf.
Candidates(s) ==
    SeqToSet(s.pending)
      \cup { [ref |-> EmptyBytes, proposal |-> AddProposal(InitKeyPackage(id)),
              sender |-> s.index] : id \in Members }
      \cup { [ref |-> EmptyBytes, proposal |-> RemoveProposal(l), sender |-> s.index] :
                l \in 0..(TreeSize(s.tree) - 1) }
      \cup { [ref |-> EmptyBytes, proposal |-> UnknownProposal, sender |-> s.index] }

ProposalLists(s) ==
    { <<a, b>> : a \in Candidates(s), b \in Candidates(s) }
      \cup { <<a, b, c>> : a \in Candidates(s), b \in Candidates(s), c \in SeqToSet(s.pending) }

ApplyInit ==
    /\ \E s \in ApplyStates :
          states = [m \in Members |-> IF m = s.id THEN Some(s) ELSE None]
    /\ network = {}
    /\ welcomes = {}
    /\ ciphers = {}
    /\ lastOp = Op("init", 0, "", "")
    /\ ratchet = HashRatchet(0, EmptyBytes)
    /\ erased = {}
    /\ lastKey = KeyCall("init", "", 0, None)
    /\ source = TreeBaseKeySource(1, EmptyBytes)
    /\ requested = <<>>

\* State::apply(proposals) on the successor of the member's state, as
\* commit() and handle() call it.
ApplyProposals(m, proposals) ==
    /\ lastOp' = [op |-> "apply", err |-> StApply(Successor(St(m)), proposals).err,
                  who |-> m, proposals |-> proposals,
                  applied |-> StApply(Successor(St(m)), proposals)]
    /\ UNCHANGED <<states, network, welcomes, ciphers, rvars>>

\* The Adds a committer may pass inline: of one or two identities that are
\* neither in its tree nor in a cached Add.
Addable(s) ==
    Members \ (TreeIds(s.tree)
               \cup { s.pending[i].proposal[2].id :
                        i \in { k \in 1..Len(s.pending) :
                                  ProposalType(s.pending[k].proposal) = "add" } })

ExtraLists(s) ==
    { <<>> }
      \cup { <<AddProposal(InitKeyPackage(j))>> : j \in Addable(s) }
      \cup { <<AddProposal(InitKeyPackage(p[1])), AddProposal(InitKeyPackage(p[2]))>> :
                p \in { q \in Addable(s) \X Addable(s) : q[1] # q[2] } }

\* State::commit, a const method: the state it is called on stays as it is.
CommitExtras(m, leaf_secret, extra) ==
    /\ lastOp' = [op |-> "commit", err |-> StCommit(St(m), leaf_secret, extra).err,
                  who |-> m, result |-> StCommit(St(m), leaf_secret, extra)]
    /\ UNCHANGED <<states, network, welcomes, ciphers, rvars>>

\* KeyScheduleEpoch::next, a const method, on the member's epoch: with the
\* all-zero or a path's commit secret, with or without a forced init secret
\* (the external-init export), for the current or the successor's context.
CommitSecrets == { ZeroBytes, <<"path", <<"leaf", "next">>>> }

ForcedInits(s) ==
    { None, Some(ZeroBytes),
      Some(ExternalInit(ExternalInitPub(s.keys), "next").init_secret) }

NextContexts(s) ==
    { GroupContext(s), GroupContextOf(s.group_id, s.epoch + 1, s.tree, s.cth) }

AdvanceKeys(m, commit_secret, force_init_secret, ctx) ==
    /\ lastOp' = [op |-> "next", err |-> "", who |-> m,
                  commit_secret |-> commit_secret,
                  force_init_secret |-> force_init_secret, context |-> ctx,
                  result |-> KeyScheduleNext(St(m).keys, commit_secret,
                                             force_init_secret, ctx)]
    /\ UNCHANGED <<states, network, welcomes, ciphers, rvars>>

ApplyStep ==
    \/ \E m \in { x \in Members : Joined(x) } :
          \E proposals \in ProposalLists(St(m)) : ApplyProposals(m, proposals)
    \/ \E m \in { x \in Members : Joined(x) } :
          \E ls \in LeafSecrets(St(m), "commit"), extra \in ExtraLists(St(m)) :
             CommitExtras(m, ls, extra)
    \/ \E m \in { x \in Members : Joined(x) } :
          \E cs \in CommitSecrets, force \in ForcedInits(St(m)),
             ctx \in NextContexts(St(m)) :
             AdvanceKeys(m, cs, force, ctx)

ApplySpec == ApplyInit /\ [][ApplyStep]_vars

\* ------------------------------------------------------------------------
\* Three members in one epoch with two proposals in flight, handled in any
\* order and committed (src/src/state.cpp)
\* ------------------------------------------------------------------------
Threesome ==
    StCommit(Founder(1), <<"leaf", 1, 0, "commit">>,
             <<AddProposal(InitKeyPackage(2)), AddProposal(InitKeyPackage(3))>>)

ThreeStates ==
    [m \in Members |->
        IF m = 1 THEN Threesome.next
        ELSE StJoin(m, InitSeed(m), InitKeyPackage(m), Threesome.welcome).state]

\* Two of the members each send an Update of their own leaf.
TwoSenders == { {1, 2}, {1, 3}, {2, 3} }
Committer == SetMax(Members)

UpdateSent(s) == StUpdateProposal(s, <<"leaf", s.id, s.epoch, "update">>)

CacheInit ==
    /\ \E two \in TwoSenders :
          /\ states = [m \in Members |->
                          IF m \in two THEN Some(UpdateSent(ThreeStates[m]).state)
                          ELSE Some(ThreeStates[m])]
          /\ network = { StSign(UpdateSent(ThreeStates[m]).state,
                                UpdateSent(ThreeStates[m]).proposal) : m \in two }
    /\ welcomes = {}
    /\ ciphers = {}
    /\ lastOp = Op("init", 0, "", "")
    /\ ratchet = HashRatchet(0, EmptyBytes)
    /\ erased = {}
    /\ lastKey = KeyCall("init", "", 0, None)
    /\ source = TreeBaseKeySource(1, EmptyBytes)
    /\ requested = <<>>

CacheStep ==
    \/ \E m \in Members, pt \in network : Handle(m, pt)
    \/ \E ls \in LeafSecrets(St(Committer), "commit") : Commit(Committer, ls, <<>>)

CacheSpec == CacheInit /\ [][CacheStep]_vars

\* ------------------------------------------------------------------------
\* One tree of base secrets under any sequence of requests
\* (src/src/key_schedule.cpp)
\* ------------------------------------------------------------------------
AppSecrets == { <<"app", 1>>, <<"app", 2>> }

BaseInit ==
    /\ states = [m \in Members |-> None]
    /\ network = {}
    /\ welcomes = {}
    /\ ciphers = {}
    /\ lastOp = Op("init", 0, "", "")
    /\ ratchet = HashRatchet(0, EmptyBytes)
    /\ erased = {}
    /\ lastKey = KeyCall("init", "", 0, None)
    /\ \E group_size \in 1..MaxLeaves, secret \in AppSecrets :
          source = TreeBaseKeySource(group_size, secret)
    /\ requested = <<>>

\* TreeBaseKeySource::get
BaseGet(sender, ub) ==
    /\ Len(requested) < MaxRequests
    /\ source' = SourceGet(source, sender, ub).source
    /\ requested' = Append(requested, sender)
    /\ lastOp' = [op |-> "get", err |-> SourceGet(source, sender, ub).err,
                  sender |-> sender, before |-> source,
                  first |-> sender \notin SeqToSet(requested),
                  result |-> SourceGet(source, sender, ub)]
    /\ UNCHANGED <<states, network, welcomes, ciphers, ratchet, erased, lastKey>>

BaseStep ==
    \E sender \in 0..(source.size - 1), ub \in UbOutcomes : BaseGet(sender, ub)

BaseSpec == BaseInit /\ [][BaseStep]_vars

\* ------------------------------------------------------------------------
\* The framing of the inner content, byte by byte (src/src/messages.cpp)
\* ------------------------------------------------------------------------
\* Bytes are 0 (the padding byte), 1 (the marker) and one other value.
Marker == 1
ByteValues == { 0, Marker, 2 }

RECURSIVE SeqsUpTo(_, _)
SeqsUpTo(S, n) ==
    IF n = 0 THEN { <<>> }
    ELSE SeqsUpTo(S, n - 1)
           \cup { Append(q, x) : q \in SeqsUpTo(S, n - 1), x \in S }

Fields == SeqsUpTo(ByteValues, MaxField)
Buffers == SeqsUpTo(ByteValues, MaxBuffer)

\* zero_bytes(size)
ZeroPad(size) == [i \in 1..size |-> 0]

\* tls::marshal / tls::unmarshal of a uint16: two bytes, high byte first.
MarshalU16(n) == << (n % 65536) \div 256, n % 256 >>
UnmarshalU16(hi, lo) == 256 * hi + lo

\* MLSPlaintext::marshal_content(padding_size): content, signature, the
\* signature length, the marker, the padding.
MarshalContentBytes(content, signature, padding_size) ==
    content \o signature \o MarshalU16(Len(signature)) \o <<Marker>>
            \o ZeroPad(padding_size)

\* content_in[i] and the iterator range [from, to) of the vector, with
\* indices counted from 0.  An index outside the vector is undefined
\* behaviour: the read gives a stray byte, or the process dies.
InBuffer(buf, i) == i >= 0 /\ i < Len(buf)
ByteAt(buf, i, stray) == IF InBuffer(buf, i) THEN buf[i + 1] ELSE stray
Range(buf, from, to) == SubSeq(buf, from + 1, to)

\* for (; content_in[cut] == 0 && cut >= 0; cut -= 1): the byte is read
\* before the index is tested.
RECURSIVE ScanCut(_, _, _)
ScanCut(buf, cut, stray) ==
    IF ByteAt(buf, cut, stray) = 0 /\ cut >= 0
    THEN ScanCut(buf, cut - 1, stray)
    ELSE cut

\* The indices the constructor reads: the scan down to the marker, and, when
\* the marker is there, the two bytes of the signature length before it.
ContentReads(buf, cut, stray) ==
    (cut..(Len(buf) - 1))
      \cup (IF ByteAt(buf, cut, stray) = Marker THEN { cut - 2, cut - 1 } ELSE {})

SigLenAt(buf, cut, stray) ==
    UnmarshalU16(ByteAt(buf, cut - 2, stray), ByteAt(buf, cut - 1, stray))

\* The cut as it would be if the two length bytes were left in the signature.
ContentParsedWithLength(buf, cut, sig_len, stray) ==
    IF ByteAt(buf, cut, stray) # Marker
    THEN [err |-> "ProtocolError", what |-> "Invalid marker byte"]
    ELSE IF sig_len > cut - 2
    THEN [err |-> "ProtocolError", what |-> "Invalid signature size"]
    ELSE [err |-> "", what |-> "",
          signature |-> Range(buf, cut - sig_len, cut),
          content |-> Range(buf, 0, cut - sig_len)]

ContentParsed(buf, cut, sig_len, stray) ==
    IF ByteAt(buf, cut, stray) # Marker
    THEN [err |-> "ProtocolError", what |-> "Invalid marker byte"]
    ELSE IF sig_len > cut - 2
    THEN [err |-> "ProtocolError", what |-> "Invalid signature size"]
    ELSE [err |-> "", what |-> "",
          signature |-> Range(buf, cut - 2 - sig_len, cut - 2),
          content |-> Range(buf, 0, cut - 2 - sig_len)]

ContentAt(buf, cut, ub, stray) ==
    IF (\E i \in ContentReads(buf, cut, stray) : ~InBuffer(buf, i)) /\ ub = "crash"
    THEN [err |-> "crash", what |-> "", reads |-> ContentReads(buf, cut, stray)]
    ELSE [reads |-> ContentReads(buf, cut, stray)]
            @@ ContentParsed(buf, cut, SigLenAt(buf, cut, stray), stray)

\* MLSPlaintext::MLSPlaintext(suite, group_id, epoch, sender, content_type,
\* content_in): the signature and the content cut out of the decrypted bytes.
ContentFromBytes(buf, ub, stray) ==
    ContentAt(buf, ScanCut(buf, Len(buf) - 1, stray), ub, stray)

FrameInit ==
    /\ states = [m \in Members |-> None]
    /\ network = {}
    /\ welcomes = {}
    /\ ciphers = {}
    /\ lastOp = Op("init", 0, "", "")
    /\ ratchet = HashRatchet(0, EmptyBytes)
    /\ erased = {}
    /\ lastKey = KeyCall("init", "", 0, None)
    /\ source = TreeBaseKeySource(1, EmptyBytes)
    /\ requested = <<>>

\* marshal_content on a plaintext with this content and signature
MarshalCall(content, signature, padding_size) ==
    /\ lastOp' = [op |-> "marshal_content", err |-> "", content |-> content,
                  signature |-> signature, padding_size |-> padding_size,
                  out |-> MarshalContentBytes(content, signature, padding_size)]
    /\ UNCHANGED <<states, network, welcomes, ciphers, rvars>>

\* The constructor on the bytes marshal_content has just produced
ParseMarshaled(ub, stray) ==
    /\ lastOp.op = "marshal_content"
    /\ lastOp' = [op |-> "parse", err |-> ContentFromBytes(lastOp.out, ub, stray).err,
                  in |-> lastOp.out, of |-> Some(lastOp),
                  result |-> ContentFromBytes(lastOp.out, ub, stray)]
    /\ UNCHANGED <<states, network, welcomes, ciphers, rvars>>

\* The constructor on any bytes a decryption may give
ParseBytes(buf, ub, stray) ==
    /\ lastOp' = [op |-> "parse", err |-> ContentFromBytes(buf, ub, stray).err,
                  in |-> buf, of |-> None,
                  result |-> ContentFromBytes(buf, ub, stray)]
    /\ UNCHANGED <<states, network, welcomes, ciphers, rvars>>

FrameStep ==
    \/ \E content \in Fields, signature \in Fields, padding_size \in 0..MaxPadding :
          MarshalCall(content, signature, padding_size)
    \/ \E ub \in UbOutcomes, stray \in ByteValues : ParseMarshaled(ub, stray)
    \/ \E buf \in Buffers, ub \in UbOutcomes, stray \in ByteValues :
          ParseBytes(buf, ub, stray)

FrameSpec == FrameInit /\ [][FrameStep]_vars


\* ------------------------------------------------------------------------
\* Properties of the group state machine
\* ------------------------------------------------------------------------
JoinedMembers == { m \in Members : Joined(m) }

CachedRefs(s) == { s.pending[i].ref : i \in 1..Len(s.pending) }

\* Two states in the same epoch with the same tree and the same cached
\* proposals.
SameView(a, b) ==
    /\ a.group_id = b.group_id
    /\ a.epoch = b.epoch
    /\ a.tree = b.tree
    /\ CachedRefs(a) = CachedRefs(b)

\* The commits a joined member can make in the current state.
CommitsOf(c) ==
    { StCommit(St(c), ls, extra) :
        ls \in LeafSecrets(St(c), "commit"), extra \in ExtraChoices(St(c)) }

\* C1: for every commit a member can make, the successor handed to the
\* committer and the successor that handle() gives any other member with
\* the same epoch, tree and cached proposals are equal states.
SameSuccessor(r, h) ==
    h.err = "" => IsSome(h.next) /\ StateEq(h.next[1], r.next)

C1_Convergence ==
    \A c \in JoinedMembers, m \in JoinedMembers :
        (c # m /\ SameView(St(c), St(m))) =>
            \A r \in CommitsOf(c) :
                r.err = "" => SameSuccessor(r, StHandle(St(m), r.pt))

\* A member has handled another member's commit and holds the state the
\* committer holds.
C1_Witness ==
    /\ lastOp.op = "handle-commit"
    /\ lastOp.err = ""
    /\ \E c \in JoinedMembers, m \in JoinedMembers :
          c # m /\ St(m).epoch >= 1 /\ StateEq(St(c), St(m))

\* C2: handle() rejects every plaintext whose epoch or group id is not the
\* state's own, and an accepted commit gives a successor at exactly the next
\* epoch while the handled state keeps its epoch.
EpochStep(s, pt, h) ==
    /\ (pt.epoch # s.epoch \/ pt.group_id # s.group_id) =>
          h.err # "" /\ h.next = None /\ h.self.epoch = s.epoch
    /\ IsSome(h.next) =>
          h.next[1].epoch = s.epoch + 1 /\ h.self.epoch = s.epoch

C2_SequentialEpochs ==
    \A m \in JoinedMembers : \A pt \in HandleInputs :
        EpochStep(St(m), pt, StHandle(St(m), pt))

\* A commit was accepted, and a plaintext of another epoch is in flight
\* that a member rejects.
C2_Witness ==
    /\ lastOp.op = "handle-commit"
    /\ lastOp.err = ""
    /\ \E m \in JoinedMembers : \E pt \in network :
          pt.epoch # St(m).epoch /\ StHandle(St(m), pt).err = "InvalidParameterError"

\* C3: when handle() raises an error, the state it was called on is exactly
\* as before and no successor is returned.
Untouched(s, h) == h.err # "" => h.self = s /\ h.next = None

C3_ErrorLeavesState ==
    \A m \in JoinedMembers : \A pt \in HandleInputs :
        Untouched(St(m), StHandle(St(m), pt))

\* A handle() call has just failed, and a commit with a tampered UpdatePath
\* in flight makes a member's decap fail.
C3_Witness ==
    /\ lastOp.op \in { "handle-commit", "handle-proposal" }
    /\ lastOp.err # ""
    /\ \E m \in JoinedMembers : \E pt \in HandleInputs :
          StHandle(St(m), pt).err = "CryptoError"

\* C4: handling a valid proposal returns no successor and only appends the
\* proposal, its ref and its sender to the pending cache; handling a valid
\* commit returns a successor.
OnlyCaches(s, pt, h) ==
    h.err = "" =>
        IF IsProposal(pt)
        THEN /\ h.next = None
             /\ h.self = [s EXCEPT !.pending =
                             Append(@, [ref |-> ProposalRef(pt),
                                        proposal |-> pt.content[2],
                                        sender |-> pt.sender[2]])]
        ELSE IsCommit(pt) /\ IsSome(h.next)

C4_ProposalOnlyCaches ==
    \A m \in JoinedMembers : \A pt \in HandleInputs :
        OnlyCaches(St(m), pt, StHandle(St(m), pt))

\* A proposal was handled and sits in a member's cache, which already held
\* an entry.
C4_Witness ==
    /\ lastOp.op = "handle-proposal"
    /\ lastOp.err = ""
    /\ \E m \in JoinedMembers : Len(St(m).pending) = 2

\* C5: protect followed by unprotect gives the message back, for every
\* member state, the founder alone at epoch 0 included, and for every state
\* of the same epoch on the receiving side; neither call changes the epoch
\* or the tree.
ReceiverState(sender, receiver, protected) ==
    IF receiver = sender THEN protected.state ELSE St(receiver)

Unprotects(s, data, u) ==
    /\ u.err = ""
    /\ u.data = data
    /\ u.state.epoch = s.epoch
    /\ u.state.tree = s.tree

RoundTrip(sender, data, p) ==
    /\ p.err = ""
    /\ p.state.epoch = St(sender).epoch
    /\ p.state.tree = St(sender).tree
    /\ \A receiver \in JoinedMembers : \A ub \in UbOutcomes :
          StateEq(St(receiver), St(sender)) =>
              Unprotects(St(receiver), data,
                         StUnprotect(ReceiverState(sender, receiver, p), p.ct, ub))

C5_ProtectRoundTrip ==
    \A sender \in JoinedMembers : \A data \in AppData, guard \in ReuseGuards, ub \in UbOutcomes :
        RoundTrip(sender, data, StProtect(St(sender), data, guard, ub))

\* C6: whenever the constructor from the Welcome of a commit returns a state
\* for a member the commit added, that state equals the committer's
\* successor; after the first Add commit on a freshly founded group both are
\* at epoch 1.
Welcomed(r) ==
    { j \in Members : IsSome(WelcomeFind(r.welcome, InitKeyPackage(j))) }

JoinsAt(prev, r, w) ==
    w.err = "" =>
        /\ StateEq(w.state, r.next)
        /\ prev.epoch = 0 => w.state.epoch = 1 /\ r.next.epoch = 1

C6_JoinerEqualsCommitter ==
    \A c \in JoinedMembers : \A r \in CommitsOf(c) :
        r.err = "" =>
            \A j \in Welcomed(r) :
                JoinsAt(St(c), r, StJoin(j, InitSeed(j), InitKeyPackage(j), r.welcome))

\* A member has joined from a Welcome and holds the state of the committer,
\* both at epoch 1 of a two-leaf tree.
C6_Witness ==
    /\ lastOp.op = "join"
    /\ lastOp.err = ""
    /\ \E c \in JoinedMembers, j \in JoinedMembers :
          /\ c # j
          /\ St(c).index = 0
          /\ St(j).index = 1
          /\ St(j).epoch = 1
          /\ StateEq(St(c), St(j))

\* C7: unprotect of a ciphertext of another epoch fails with ProtocolError
\* and consumes no key.  Only ciphertexts made under an established key
\* schedule (epoch 1 and later) are considered.
StaleRejected(s, u) == u.err = "ProtocolError" /\ u.state = s

C7_StaleCiphertext ==
    \A m \in JoinedMembers : \A ct \in ciphers, ub \in UbOutcomes :
        (ct.epoch >= 1 /\ ct.epoch # St(m).epoch) =>
            StaleRejected(St(m), StUnprotect(St(m), ct, ub))

\* C8: a failure at the content AEAD open keeps the key of that generation:
\* after a ciphertext tampered behind the sender-data sample has failed, the
\* genuine ciphertext of the same generation still decrypts.
KeyKept(ct, data, ub, failed) ==
    failed.err = "ProtocolError" =>
        /\ StUnprotect(failed.state, ct, ub).err = ""
        /\ StUnprotect(failed.state, ct, ub).data = data

C8_KeySurvivesFailure ==
    \A m \in JoinedMembers : \A ct \in ciphers, ub \in UbOutcomes :
        (ct.epoch >= 1 /\ StUnprotect(St(m), ct, ub).err = "") =>
            KeyKept(ct, StUnprotect(St(m), ct, ub).data, ub,
                    StUnprotect(St(m), CipherVariant(ct, 1), ub))

\* C9: handle() rejects with ProtocolError a commit without UpdatePath whose
\* proposals include an Update or a Remove or are none at all, and a commit
\* with UpdatePath whose proposals are all Adds.
PathNeeded(proposals) ==
    \/ proposals = <<>>
    \/ \E i \in 1..Len(proposals) :
          ProposalType(proposals[i].proposal) \in { "update", "remove" }

PathRule(commit, resolved, h) ==
    (resolved.err = "" /\ PathNeeded(resolved.proposals) # IsSome(commit.path)) =>
        h.err = "ProtocolError"

C9_UpdatePathRule ==
    \A m \in JoinedMembers : \A pt \in HandleInputs :
        ( /\ IsCommit(pt)
          /\ pt.group_id = St(m).group_id
          /\ pt.epoch = St(m).epoch
          /\ pt.sender[2] # St(m).index
          /\ StVerify(St(m), pt) = "" ) =>
            PathRule(pt.content[2],
                     MustResolve(St(m), pt.content[2].proposals, pt.sender[2]),
                     StHandle(St(m), pt))

\* C10: handle() rejects with ProtocolError a commit that names a proposal
\* ref the handling state has not cached.
UnknownRef(s, commit, sender) ==
    \E i \in 1..Len(commit.proposals) : StResolve(s, commit.proposals[i], sender) = None

C10_UnknownProposalRef ==
    \A m \in JoinedMembers : \A pt \in HandleInputs :
        ( /\ IsCommit(pt)
          /\ pt.group_id = St(m).group_id
          /\ pt.epoch = St(m).epoch
          /\ pt.sender[2] # St(m).index
          /\ StVerify(St(m), pt) = ""
          /\ UnknownRef(St(m), pt.content[2], pt.sender[2]) ) =>
            StHandle(St(m), pt).err = "ProtocolError"

\* C11: handle() returns a successor for a commit only when the commit
\* carries the MAC of the successor's confirmed transcript hash under the
\* successor's confirmation key; a commit that would be accepted fails with
\* ProtocolError and gives no successor once its tag is missing or wrong.
ConfirmationOf(next) == Hmac(ConfirmationKey(next.keys), next.cth)

TagRejected(h) == h.err = "ProtocolError" /\ h.next = None

TagDecides(s, pt, h) ==
    /\ IsSome(h.next) => pt.confirmation_tag = Some(ConfirmationOf(h.next[1]))
    /\ (pt \in network /\ h.err = "") =>
          /\ TagRejected(StHandle(s, Variant(pt, "notag")))
          /\ TagRejected(StHandle(s, Variant(pt, "badtag")))

C11_ConfirmationTag ==
    \A m \in JoinedMembers : \A pt \in HandleInputs :
        IsCommit(pt) => TagDecides(St(m), pt, StHandle(St(m), pt))

\* A member has accepted a commit, and a commit is in flight that another
\* member accepts with its tag and rejects without it.
C11_Witness ==
    /\ lastOp.op = "handle-commit"
    /\ lastOp.err = ""
    /\ \E m \in JoinedMembers : \E pt \in network :
          /\ IsCommit(pt)
          /\ StHandle(St(m), pt).err = ""
          /\ StHandle(St(m), Variant(pt, "notag")).err = "ProtocolError"

\* C12: a handshake message that names a blank leaf of the receiver's tree
\* as its sender, and carries the membership tag of the receiver's epoch,
\* is rejected with ProtocolError.
BlankLeaves(s) == { l \in 0..(TreeSize(s.tree) - 1) : IsBlank(s.tree, 2 * l) }

\* A proposal as a member holding s sends it, with leaf in the sender field.
FromLeaf(s, leaf, proposal) ==
    PtSetMembershipTag(
        PtSign(Plaintext(s.group_id, s.epoch, MemberSender(leaf), <<"proposal", proposal>>),
               GroupContext(s), SigPriv(s.id)),
        GroupContext(s), MembershipKey(s.keys))

C12_BlankSender ==
    \A m \in JoinedMembers : \A l \in BlankLeaves(St(m)) :
        StHandle(St(m), FromLeaf(St(m), l, RemoveProposal(0))).err = "ProtocolError"

\* C13: for a generation that has not been erased, get() succeeds, and a
\* second get() of the same generation returns the same key and nonce and
\* leaves the ratchet as the first call left it.
SameKeyTwice(first, second) ==
    /\ first.err = ""
    /\ second.err = ""
    /\ second.keys = first.keys
    /\ second.ratchet = first.ratchet

GetTwice(r, generation) ==
    SameKeyTwice(RatchetGet(r, generation),
                 RatchetGet(RatchetGet(r, generation).ratchet, generation))

C13_GetIsIdempotent ==
    \A generation \in Generations \ erased : GetTwice(ratchet, generation)

\* get() has just fast-forwarded over at least two generations, and asking
\* again gives the key it returned.
C13_Witness ==
    /\ lastKey.op = "get"
    /\ lastKey.err = ""
    /\ lastKey.generation >= 2
    /\ ratchet.next_generation = lastKey.generation + 1
    /\ RatchetGet(ratchet, lastKey.generation).keys = lastKey.keys[1]

\* C14: get() of a generation at or beyond the next one fast-forwards: it
\* returns the key and nonce of that generation of the hash chain, leaves the
\* ratchet one past it and keeps the generations it skipped; get() of a
\* generation that was produced and erased fails, in every later state.
RECURSIVE SecretAt(_, _, _, _)
SecretAt(secret, node, from, to) ==
    IF from >= to THEN secret
    ELSE SecretAt(DeriveAppSecret(secret, "app-secret", node, from, "Nh"), node, from + 1, to)

ChainKeys(r, generation) ==
    <<DeriveAppSecret(SecretAt(r.next_secret, r.node, r.next_generation, generation),
                      "app-key", r.node, generation, "Nk"),
      DeriveAppSecret(SecretAt(r.next_secret, r.node, r.next_generation, generation),
                      "app-nonce", r.node, generation, "Nk")>>

FastForwards(r, generation, got) ==
    /\ got.err = ""
    /\ got.keys = ChainKeys(r, generation)
    /\ got.ratchet.next_generation = generation + 1
    /\ \A k \in r.next_generation..generation : MapHas(got.ratchet.cache, k)

Expired(r, got) == got.err = "ProtocolError" /\ got.ratchet = r

C14_FastForwardAndExpiry ==
    /\ \A generation \in Generations :
          generation >= ratchet.next_generation =>
              FastForwards(ratchet, generation, RatchetGet(ratchet, generation))
    /\ \A generation \in erased :
          Expired(ratchet, RatchetGet(ratchet, generation))

\* get() of an erased generation has just failed, while the ratchet has been
\* moved past the erased generation and can still fast-forward.
C14_Witness ==
    /\ lastKey.op = "get"
    /\ lastKey.err = "ProtocolError"
    /\ lastKey.generation \in erased
    /\ ratchet.next_generation >= lastKey.generation + 2
    /\ ratchet.next_generation < MaxGeneration

\* C15: the ratchet never retains more than a fixed number of generations.
C15_BoundedCache == Cardinality(ratchet.cache) <= MaxRetained

\* C16: a non-member that holds the external public key of a member's epoch
\* exports an init secret the member's key schedule recovers from the KEM
\* output, and the member's state accepts the non-member's commit carrying
\* that KEM output and returns a successor.
ExternalInitProposal(kem_output) == <<"external_init", kem_output>>
NewMemberSender == <<"new_member", 0>>

ExternalCommit(s, id) ==
    PtSign(Plaintext(s.group_id, s.epoch, NewMemberSender,
                     <<"commit",
                       [proposals |->
                            <<Inline(ExternalInitProposal(
                                  ExternalInit(ExternalInitPub(s.keys), id).kem_output)),
                              Inline(AddProposal(InitKeyPackage(id)))>>,
                        path |-> None]>>),
           GroupContext(s), SigPriv(id))

ExternalAccepted(s, id, h) ==
    /\ ReceiveExternalInit(s.keys, ExternalInit(ExternalInitPub(s.keys), id).kem_output)
          = ExternalInit(ExternalInitPub(s.keys), id).init_secret
    /\ h.err = ""
    /\ IsSome(h.next)

C16_ExternalJoin ==
    \A m \in JoinedMembers : \A id \in Members \ JoinedMembers :
        St(m).epoch >= 1 =>
            ExternalAccepted(St(m), id, StHandle(St(m), ExternalCommit(St(m), id)))

\* C18: for every proposal list, in whatever order, apply() gives the state
\* that applying the list's Updates, then its Removes, then its Adds one by
\* one (each type in list order) and truncating the tree at the end gives,
\* and fails where that fails.
OfType(proposals, type) ==
    SelectSeq(proposals, LAMBDA cached : ProposalType(cached.proposal) = type)

TypeOrdered(proposals) ==
    OfType(proposals, "update") \o OfType(proposals, "remove") \o OfType(proposals, "add")

RECURSIVE ApplyInListOrder(_, _, _)
ApplyInListOrder(acc, proposals, i) ==
    IF i > Len(proposals) \/ acc.err # "" THEN acc
    ELSE ApplyInListOrder(
             ApplyPass(acc, <<proposals[i]>>, 1, ProposalType(proposals[i].proposal)),
             proposals, i + 1)

TruncatedAtEnd(st, tree) ==
    [st EXCEPT !.tree = tree, !.tree_priv = PrivTruncate(@, TreeSize(tree))]

ApplyAgrees(applied, ref) ==
    /\ applied.err = ref.err
    /\ applied.err = "" => applied.state = TruncatedAtEnd(ref.state, Truncate(ref.state.tree))

AppliesInTypeOrder(s, proposals, applied) ==
    ApplyAgrees(applied, ApplyInListOrder(ApplyStart(s), TypeOrdered(proposals), 1))

C18_ApplyOrder ==
    lastOp.op = "apply" =>
        AppliesInTypeOrder(Successor(St(lastOp.who)), lastOp.proposals, lastOp.applied)

\* apply() has just returned for a list that is not in type order, on which
\* applying the proposals in the list's own order would have given another
\* tree.
OutOfTypeOrder(proposals) == proposals # TypeOrdered(proposals)

OrderMatters(s, proposals) ==
    /\ OutOfTypeOrder(proposals)
    /\ ApplyInListOrder(ApplyStart(s), proposals, 1).err = ""
    /\ ApplyInListOrder(ApplyStart(s), proposals, 1).state.tree
          # ApplyInListOrder(ApplyStart(s), TypeOrdered(proposals), 1).state.tree

C18_Witness ==
    /\ lastOp.op = "apply"
    /\ lastOp.err = ""
    /\ OrderMatters(Successor(St(lastOp.who)), lastOp.proposals)

\* C19: a commit that succeeds carries an UpdatePath exactly when its
\* resolved proposal list holds an Update or a Remove, whoever sent it, or is
\* empty; the commit secret is the update secret of the path, and without a
\* path the all-zero string.
NeedsPath(proposals) ==
    \/ proposals = <<>>
    \/ \E i \in 1..Len(proposals) : ProposalType(proposals[i].proposal) \in {"update", "remove"}

CommitProposals(s, extra) ==
    MustResolve(s, CommitIds(s, extra), s.index).proposals

PathAsRequired(s, extra, r) ==
    r.err = "" =>
        /\ IsSome(r.pt.content[2].path) <=> NeedsPath(CommitProposals(s, extra))
        /\ r.next.keys.epoch_secret =
              KeyScheduleNext(s.keys,
                              IF IsSome(r.pt.content[2].path)
                              THEN r.next.tree_priv.update_secret ELSE ZeroBytes,
                              None, GroupContext(r.next)).epoch_secret

C19_PathExactlyWhenRequired ==
    \A m \in JoinedMembers : \A extra \in ExtraChoices(St(m)) :
        \A ls \in LeafSecrets(St(m), "commit") :
            PathAsRequired(St(m), extra, StCommit(St(m), ls, extra))

\* C20: applying a cached Update sent from the member's own leaf fails when
\* no leaf secret is cached under the hash of its key package, and otherwise
\* leaves as the private leaf secret the one cached under that hash.
OwnUpdates(s) ==
    { cached \in SeqToSet(s.pending) :
        ProposalType(cached.proposal) = "update" /\ cached.sender = s.index }

LeafSecretOf(priv) == MapGet(priv.secrets, 2 * priv.index)

InstallsCached(s, cached, applied) ==
    IF MapHas(s.update_secrets, KpHash(cached.proposal[2]))
    THEN /\ applied.err = ""
         /\ LeafSecretOf(applied.state.tree_priv)
               = MapGet(s.update_secrets, KpHash(cached.proposal[2]))
    ELSE applied.err = "ProtocolError"

C20_SelfUpdateSecret ==
    \A m \in JoinedMembers : \A cached \in OwnUpdates(St(m)) :
        InstallsCached(St(m), cached, StApply(Successor(St(m)), <<cached>>))

\* C21: the successor a commit gives its committer, and the successor
\* handle() gives any member that accepts the commit, have as confirmed
\* transcript hash the hash of the old interim hash and the commit's content,
\* and as interim hash the hash of that and the signature and confirmation
\* tag the commit carries.
TranscriptStep(s, pt, next) ==
    /\ IsSome(pt.confirmation_tag)
    /\ next.cth = <<"hash", s.ith, CommitContent(pt)>>
    /\ next.ith = <<"hash", next.cth, <<"auth", pt.signature, pt.confirmation_tag>>>>

HandledStep(s, pt, h) == IsSome(h.next) => TranscriptStep(s, pt, h.next[1])

C21_TranscriptAdvance ==
    /\ \A c \in JoinedMembers : \A r \in CommitsOf(c) :
          r.err = "" =>
              /\ TranscriptStep(St(c), r.pt, r.next)
              /\ \A m \in JoinedMembers : HandledStep(St(m), r.pt, StHandle(St(m), r.pt))
    /\ \A m \in JoinedMembers : \A pt \in HandleInputs :
          IsCommit(pt) => HandledStep(St(m), pt, StHandle(St(m), pt))

\* A member has just accepted the commit that took the committer to the
\* epoch both are in now, and both hold the interim hash over the tag that
\* commit carries.
C21_Witness ==
    /\ lastOp.op = "handle-commit"
    /\ lastOp.err = ""
    /\ \E c \in JoinedMembers, m \in JoinedMembers : \E pt \in network :
          /\ c # m
          /\ IsCommit(pt)
          /\ pt.sender = MemberSender(St(c).index)
          /\ pt.epoch + 1 = St(m).epoch
          /\ IsSome(pt.confirmation_tag)
          /\ St(m).ith = <<"hash", St(m).cth, CommitAuthData(pt)>>
          /\ St(c).ith = St(m).ith

\* C22: two members of one epoch that hold the same proposals in their
\* caches, in whatever order they arrived, get from handle() of the same
\* commit the same outcome and equal successors.
SameCached(s, t) ==
    /\ s.epoch = t.epoch
    /\ SeqToSet(s.pending) = SeqToSet(t.pending)

OrderFree(hx, hy) ==
    /\ hx.err = hy.err
    /\ hx.err = "" =>
          /\ IsSome(hx.next)
          /\ IsSome(hy.next)
          /\ StateEq(hx.next[1], hy.next[1])

Receivers(pt) ==
    { m \in JoinedMembers : IsCommit(pt) /\ pt.sender # MemberSender(St(m).index) }

C22_ArrivalOrder ==
    \A pt \in network : \A x \in Receivers(pt), y \in Receivers(pt) :
        SameCached(St(x), St(y)) =>
            OrderFree(StHandle(St(x), pt), StHandle(St(y), pt))

\* C23: no member's cache holds two entries with the same proposal ref, and
\* the proposal list of a commit built from the cache names no ref twice.
NoRepeat(seq) == \A i \in 1..Len(seq), j \in 1..Len(seq) : seq[i] = seq[j] => i = j

CachedRefSeq(s) == [i \in 1..Len(s.pending) |-> s.pending[i].ref]

C23_OneEntryPerRef ==
    \A m \in JoinedMembers :
        /\ NoRepeat(CachedRefSeq(St(m)))
        /\ NoRepeat(CommitIds(St(m), <<>>))

\* C24: when apply() has applied two or more Updates for one leaf, and no
\* Remove of it, the leaf holds the key package of the last of them in list
\* order, and the successor no longer holds a leaf secret cached for an
\* earlier one.
UpdatesFor(proposals, leaf) ==
    SelectSeq(proposals,
              LAMBDA cached : ProposalType(cached.proposal) = "update" /\ cached.sender = leaf)

Removed(proposals, leaf) ==
    \E i \in 1..Len(proposals) : proposals[i].proposal = RemoveProposal(leaf)

LastWins(next, leaf, ups) ==
    /\ TreeKeyPackage(next.tree, leaf) = Some(ups[Len(ups)].proposal[2])
    /\ \A i \in 1..(Len(ups) - 1) :
          ups[i].proposal # ups[Len(ups)].proposal =>
              ~MapHas(next.update_secrets, KpHash(ups[i].proposal[2]))

C24_LastUpdateWins ==
    (lastOp.op = "apply" /\ lastOp.err = "") =>
        \A leaf \in 0..(TreeSize(St(lastOp.who).tree) - 1) :
            (Len(UpdatesFor(lastOp.proposals, leaf)) >= 2 /\ ~Removed(lastOp.proposals, leaf)) =>
                LastWins(lastOp.applied.state, leaf, UpdatesFor(lastOp.proposals, leaf))

\* C25 as stated: when apply() has applied a list that holds an Update for a
\* leaf and a Remove of that leaf, the tree is the one the list without that
\* leaf's Updates gives, and the leaf, where the tree still reaches it, and
\* the nodes above it are blank.
WithoutUpdatesFor(proposals, leaf) ==
    SelectSeq(proposals,
              LAMBDA cached : ~(ProposalType(cached.proposal) = "update" /\ cached.sender = leaf))

AboveBlank(tree, leaf) ==
    \A x \in SeqToSet(Ancestors(2 * leaf, TreeSize(tree))) : IsBlank(tree, x)

BlankAbove(tree, leaf) ==
    leaf < TreeSize(tree) => IsBlank(tree, 2 * leaf) /\ AboveBlank(tree, leaf)

SameWithoutUpdate(s, proposals, leaf, tree) ==
    tree = StApply(s, WithoutUpdatesFor(proposals, leaf)).state.tree

UpdatedAndRemoved(proposals) ==
    { leaf \in 0..2 : UpdatesFor(proposals, leaf) # <<>> /\ Removed(proposals, leaf) }

AddedPackages(proposals) ==
    { proposals[i].proposal[2] :
        i \in { k \in 1..Len(proposals) : ProposalType(proposals[k].proposal) = "add" } }

BlankOrAdded(tree, leaf, proposals) ==
    leaf < TreeSize(tree) =>
        /\ AboveBlank(tree, leaf)
        /\ \/ IsBlank(tree, 2 * leaf)
           \/ \E kp \in AddedPackages(proposals) : TreeKeyPackage(tree, leaf) = Some(kp)

JoinersOf(s, pt) ==
    AddsOf([i \in 1..Len(pt.content[2].proposals) |->
               MustResolve(s, pt.content[2].proposals, s.index).proposals[i].proposal])

\* What apply() made of the commit's proposals, before the UpdatePath.
AppliedFor(s, pt) ==
    StApply(Successor(s), MustResolve(s, pt.content[2].proposals, s.index).proposals)

SecretFor(s, next, pt, kp) ==
    IF IsSome(pt.content[2].path)
    THEN SharedPathSecret(next.tree_priv, TreeFind(AppliedFor(s, pt).state.tree, kp)[1],
                          TreeSize(next.tree))
    ELSE None

EntryFor(s, next, pt, kp) ==
    [key_package_hash |-> KpHash(kp),
     encrypted_group_secrets |->
         HpkeSeal(kp.init_key, EmptyBytes,
                  GroupSecrets(next.keys.joiner_secret, SecretFor(s, next, pt, kp)))]

WelcomeMatches(s, r, joiners) ==
    /\ Len(r.welcome.secrets) = Len(joiners)
    /\ Len(AppliedFor(s, r.pt).joiner_locations) = Len(joiners)
    /\ \A i \in 1..Len(joiners) :
          /\ TreeFind(AppliedFor(s, r.pt).state.tree, joiners[i])
                = Some(AppliedFor(s, r.pt).joiner_locations[i])
          /\ r.welcome.secrets[i] = EntryFor(s, r.next, r.pt, joiners[i])

C26_WelcomeSecrets ==
    (lastOp.op = "commit" /\ lastOp.err = "") =>
        WelcomeMatches(St(lastOp.who), lastOp.result,
                       JoinersOf(St(lastOp.who), lastOp.result.pt))

\* commit() has just returned a commit with an UpdatePath and a Welcome for
\* two joiners, whose entries hold different path secrets.
C26_Witness ==
    /\ lastOp.op = "commit"
    /\ lastOp.err = ""
    /\ IsSome(lastOp.result.pt.content[2].path)
    /\ Len(lastOp.result.welcome.secrets) = 2
    /\ IsSome(HpkePlain(lastOp.result.welcome.secrets[1].encrypted_group_secrets)[3])
    /\ HpkePlain(lastOp.result.welcome.secrets[1].encrypted_group_secrets)[3]
          # HpkePlain(lastOp.result.welcome.secrets[2].encrypted_group_secrets)[3]

\* C27: KeyScheduleEpoch::next extracts with the forced init secret as salt
\* when one is supplied and the epoch's own init secret otherwise, and the
\* commit secret as input; the epoch it returns is the one constructed from
\* that secret and the context, so equal inputs give equal epochs; the
\* epoch next was called on is left as it was.
SaltOf(keys, force_init_secret) ==
    IF IsSome(force_init_secret) THEN force_init_secret[1] ELSE InitSecret(keys)

NextAsClaimed(keys, c) ==
    /\ c.result.joiner_secret
          = Extract(SaltOf(keys, c.force_init_secret), c.commit_secret)
    /\ c.result = KeyScheduleFromJoiner(c.result.joiner_secret, c.context)

C27_NextEpoch ==
    [][lastOp'.op = "next" =>
          /\ NextAsClaimed(St(lastOp'.who).keys, lastOp')
          /\ states'[lastOp'.who] = states[lastOp'.who]]_vars

\* next has been called with a forced init secret, and the epoch it returned
\* differs from the one the epoch's own init secret gives.
C27_Witness ==
    /\ lastOp.op = "next"
    /\ IsSome(lastOp.force_init_secret)
    /\ lastOp.result.joiner_secret
          # Extract(InitSecret(St(lastOp.who).keys), lastOp.commit_secret)

\* C28: next returns generation 0 on a fresh ratchet, the generation after
\* the previous one when next follows next, and in every case a generation
\* above all those an earlier next or a fast-forwarding get has produced,
\* so that no generation is handed out twice.
Produced == { kv[1] : kv \in ratchet.cache } \cup erased

NextIsFresh(generation) ==
    /\ generation \notin Produced
    /\ \A g \in Produced : g < generation
    /\ Produced = {} => generation = 0
    /\ lastKey.op = "next" => generation = lastKey.generation + 1

C28_NextGenerations ==
    [][lastKey'.op = "next" => NextIsFresh(lastKey'.generation)]_vars

\* next has returned a generation above 1 on a ratchet with an erased
\* generation.
C28_Witness ==
    /\ lastKey.op = "next"
    /\ lastKey.generation >= 2
    /\ erased # {}

\* C29: whatever order next, get and erase were called in, get() of every
\* generation the ratchet has passed (by next or by a fast-forwarding get)
\* and that was not erased succeeds, and returns the key and nonce that
\* deriving in order from the base secret gives for that generation.
InOrderKeys(node, base, generation) == ChainKeys(HashRatchet(node, base), generation)

Passed == (0..(ratchet.next_generation - 1)) \ erased

StillThere(base, generation) ==
    /\ RatchetGet(ratchet, generation).err = ""
    /\ RatchetGet(ratchet, generation).keys
          = InOrderKeys(ratchet.node, base, generation)
    /\ RatchetGet(ratchet, generation).ratchet = ratchet

C29_ReorderingTolerated ==
    \E base \in BaseSecrets :
        /\ ratchet.next_secret = SecretAt(base, ratchet.node, 0, ratchet.next_generation)
        /\ \A generation \in Passed : StillThere(base, generation)

\* get() has just returned the in-order key of a generation at least two
\* behind the ratchet, after a later generation was erased.
C29_Witness ==
    /\ lastKey.op = "get"
    /\ lastKey.err = ""
    /\ lastKey.generation + 2 <= ratchet.next_generation
    /\ \E g \in erased : g > lastKey.generation
    /\ \E base \in BaseSecrets :
          lastKey.keys = Some(InOrderKeys(ratchet.node, base, lastKey.generation))

\* C30: once next has advanced the ratchet (directly or inside get), no
\* field of the ratchet holds the previous chain secret; once erase(g) has
\* run for a cached generation, the ratchet has no entry for g and holds
\* neither its key nor its nonce, and everything else is as before; erase
\* of a generation that is not cached changes nothing.
HoldsSecret(r, secret) ==
    \/ r.next_secret = secret
    \/ \E kv \in r.cache : kv[2][1] = secret \/ kv[2][2] = secret

Superseded(old, new) ==
    new.next_generation > old.next_generation => ~HoldsSecret(new, old.next_secret)

ErasedFrom(old, new, generation) ==
    IF MapHas(old.cache, generation)
    THEN /\ ~MapHas(new.cache, generation)
         /\ ~HoldsSecret(new, MapGet(old.cache, generation)[1])
         /\ ~HoldsSecret(new, MapGet(old.cache, generation)[2])
         /\ new.cache = { kv \in old.cache : kv[1] # generation }
         /\ new = [old EXCEPT !.cache = new.cache]
    ELSE new = old

C30_WipedWhenSuperseded ==
    [][/\ lastKey'.op \in { "next", "get" } => Superseded(ratchet, ratchet')
       /\ lastKey'.op = "next" => ratchet'.next_generation > ratchet.next_generation
       /\ lastKey'.op = "erase" => ErasedFrom(ratchet, ratchet', lastKey'.generation)]_vars

\* erase has just removed a generation from a ratchet that has moved past it
\* and still holds other generations.
C30_Witness ==
    /\ lastKey.op = "erase"
    /\ lastKey.generation \in erased
    /\ ~MapHas(ratchet.cache, lastKey.generation)
    /\ ratchet.next_generation > lastKey.generation + 1
    /\ ratchet.cache # {}

\* C31: for every padding size, the constructor applied to the bytes
\* marshal_content produced gives back the content and the signature that
\* were marshalled, without the padding and the marker.
RoundTrips(m, parsed) ==
    /\ parsed.err = ""
    /\ parsed.content = m.content
    /\ parsed.signature = m.signature

C31_ContentRoundTrip ==
    (lastOp.op = "parse" /\ lastOp.of # None) => RoundTrips(lastOp.of[1], lastOp.result)

\* Bytes marshalled with padding, whose content and signature both end in a
\* zero byte, have been parsed.
C31_Witness ==
    /\ lastOp.op = "parse"
    /\ lastOp.of # None
    /\ lastOp.of[1].padding_size = MaxPadding
    /\ lastOp.of[1].content = <<2, 0>>
    /\ lastOp.of[1].signature = <<Marker, 0>>
    /\ lastOp.result.err = ""

\* C39: for every byte string, the constructor either succeeds or throws
\* ProtocolError, and reads no index outside the buffer.
C39_ParseInBounds ==
    lastOp.op = "parse" =>
        /\ lastOp.err \in { "", "ProtocolError" }
        /\ \A i \in lastOp.result.reads : InBuffer(lastOp.in, i)

\* C32: when a member unprotects a ciphertext successfully, unprotecting the
\* same ciphertext again on the state this leaves fails with ProtocolError
\* (the generation's key is gone) and returns no data.
Replayed(ct, first, second) ==
    first.err = "" =>
        /\ second.err = "ProtocolError"
        /\ "data" \notin DOMAIN second
        /\ second.state = first.state

ReplayFails(s, ct, ub, again) ==
    Replayed(ct, StUnprotect(s, ct, ub),
             StUnprotect(StUnprotect(s, ct, ub).state, ct, again))

C32_NoReplay ==
    \A m \in JoinedMembers : \A ct \in ciphers, ub \in UbOutcomes, again \in UbOutcomes :
        ReplayFails(St(m), ct, ub, again)

\* A member has just unprotected a ciphertext, and the same ciphertext now
\* fails on its state with ProtocolError.
C32_Witness ==
    /\ lastOp.op = "unprotect"
    /\ lastOp.err = ""
    /\ \E m \in JoinedMembers : \E ct \in ciphers :
          /\ ct.epoch = St(m).epoch
          /\ ct.epoch >= 1
          /\ StUnprotect(St(m), ct, "garbage").err = "ProtocolError"

\* C33: the base secret get() returns for a leaf requested for the first
\* time is the one derived from the root secret down the path to that leaf,
\* whatever leaves were requested before it and in whatever order.
RECURSIVE SecretOf(_, _, _)
SecretOf(root_secret, node, size) ==
    IF node = Root(size) THEN root_secret
    ELSE DeriveAppSecret(SecretOf(root_secret, Parent(node, size), size),
                         "tree", node, 0, "Nh")

FromRoot(c, root_secret) ==
    /\ c.err = ""
    /\ c.result.out = SecretOf(root_secret, 2 * c.sender, c.before.size)
    /\ \A x \in DOMAIN c.before.secrets :
          c.before.secrets[x] \in { EmptyBytes, SecretOf(root_secret, x, c.before.size) }

C33_BaseOrderFree ==
    (lastOp.op = "get" /\ lastOp.first) =>
        \E root_secret \in AppSecrets : FromRoot(lastOp, root_secret)

\* A leaf has been requested for the first time after two others, which were
\* requested right to left.
C33_Witness ==
    /\ lastOp.op = "get"
    /\ lastOp.first
    /\ lastOp.err = ""
    /\ Len(requested) >= 3
    /\ requested[1] > requested[2]
    /\ lastOp.sender < requested[1]

\* C34: once get(leaf) has returned, no node on the path of that leaf (the
\* leaf, its direct path, the root) holds a secret, and every secret still
\* held is that of a node hanging off the path of a requested leaf, with no
\* requested leaf below it.
Populated(src) == { x \in DOMAIN src.secrets : src.secrets[x] # EmptyBytes }

OnPath(src, x, leaf) == x \in SeqToSet(SourcePath(src, leaf))

OffRequestedPaths(src, x, leaves) ==
    /\ \A leaf \in leaves : ~OnPath(src, x, leaf)
    /\ \E leaf \in leaves : OnPath(src, Parent(x, src.size), leaf)

C34_PathWiped ==
    (lastOp.op = "get" /\ lastOp.err = "") =>
        /\ \A x \in Populated(source) : ~OnPath(source, x, lastOp.sender)
        /\ \A x \in Populated(source) :
              OffRequestedPaths(source, x, SeqToSet(requested))

\* Two leaves of a tree of at least three have been requested, and secrets
\* of subtrees not yet requested remain.
C34_Witness ==
    /\ lastOp.op = "get"
    /\ lastOp.err = ""
    /\ lastOp.first
    /\ source.size >= 3
    /\ Len(requested) = 2
    /\ Populated(source) # {}

\* C35: get() reads its path and its secrets inside their bounds: it finds a
\* node with a secret on the path of the requested leaf, and when there is
\* none it fails with InvalidParameterError.
FoundOrRefused(c) ==
    IF \E x \in Populated(c.before) : OnPath(c.before, x, c.sender)
    THEN c.err = ""
    ELSE c.err = "InvalidParameterError"

C35_GetInBounds == lastOp.op = "get" => FoundOrRefused(lastOp)

\* C36: the successor commit() returns and the successor handle() returns
\* have an empty proposal cache, handle() of a commit leaves the state it is
\* called on as it was, and every proposal a state holds in its cache was
\* cached in the state's own epoch.
CachedInEpoch(s) ==
    \A i \in 1..Len(s.pending) : s.pending[i].ref[2].epoch = s.epoch

HandledFresh(s, h) ==
    /\ h.self = s
    /\ IsSome(h.next) => h.next[1].pending = <<>> /\ h.next[1].epoch = s.epoch + 1

C36_FreshCache ==
    /\ \A m \in JoinedMembers : CachedInEpoch(St(m))
    /\ \A c \in JoinedMembers : \A r \in CommitsOf(c) :
          r.err = "" => r.next.pending = <<>> /\ r.next.epoch = St(c).epoch + 1
    /\ \A m \in JoinedMembers : \A pt \in HandleInputs :
          IsCommit(pt) => HandledFresh(St(m), StHandle(St(m), pt))

\* A member has just accepted a commit into a later epoch with an empty
\* cache, while a proposal of an earlier epoch is still on the wire and is
\* refused by it.
C36_Witness ==
    /\ lastOp.op = "handle-commit"
    /\ lastOp.err = ""
    /\ \E m \in JoinedMembers : \E pt \in network :
          /\ IsProposal(pt)
          /\ pt.epoch < St(m).epoch
          /\ St(m).pending = <<>>
          /\ StHandle(St(m), pt).err = "InvalidParameterError"
          /\ \E q \in network :
                IsCommit(q) /\ q.epoch = pt.epoch /\ q.content[2].proposals # <<>>

\* C37: commit() hands back a successor other than the state it was called
\* on, and its commit names the committer's leaf as sender; handle() never
\* returns a successor for a commit whose sender is the handling member's own
\* leaf and leaves the state as it is: the commit is refused with
\* InvalidParameterError when it is of the member's group and epoch and
\* passes verification, as the member's own commit does while its leaf still
\* holds its key package, and also after the member adopted the successor;
\* one that fails verification is refused with ProtocolError.
FromOwnLeaf(s, pt) == IsCommit(pt) /\ pt.sender = MemberSender(s.index)

OwnLeafKept(s) ==
    /\ TreeKeyPackage(s.tree, s.index) # None
    /\ TreeKeyPackage(s.tree, s.index)[1].id = s.id

NoSuccessor(s, h) == h.next = None /\ h.self = s

OwnCommitRefused(s, h) == h.err = "InvalidParameterError" /\ NoSuccessor(s, h)

Accepted(s, pt) ==
    pt.group_id = s.group_id /\ pt.epoch = s.epoch /\ StVerify(s, pt) = ""

RefusedInOrder(s, pt, h) ==
    /\ NoSuccessor(s, h)
    /\ h.err \in { "InvalidParameterError", "ProtocolError" }
    /\ Accepted(s, pt) => h.err = "InvalidParameterError"
    /\ h.err = "ProtocolError" => StVerify(s, pt) = "false"

C37_OwnCommit ==
    /\ \A c \in JoinedMembers : \A r \in CommitsOf(c) :
          r.err = "" =>
              /\ r.next # St(c)
              /\ FromOwnLeaf(St(c), r.pt)
              /\ OwnLeafKept(St(c)) => OwnCommitRefused(St(c), StHandle(St(c), r.pt))
              /\ OwnCommitRefused(r.next, StHandle(r.next, r.pt))
    /\ \A m \in JoinedMembers : \A pt \in HandleInputs :
          FromOwnLeaf(St(m), pt) => RefusedInOrder(St(m), pt, StHandle(St(m), pt))

\* C37 as stated: every commit from the handling member's own leaf is refused
\* with InvalidParameterError.
C37_AlwaysInvalidParameter ==
    \A m \in JoinedMembers : \A pt \in HandleInputs :
        FromOwnLeaf(St(m), pt) => OwnCommitRefused(St(m), StHandle(St(m), pt))

\* A committer that adopted the successor of its commit has just been handed
\* that commit, of the epoch before, and refused it; and a commit it can make
\* now would be refused by the state it is made from.
C37_Witness ==
    /\ lastOp.op = "handle-commit"
    /\ lastOp.err = "InvalidParameterError"
    /\ \E m \in JoinedMembers :
          /\ \E pt \in network : FromOwnLeaf(St(m), pt) /\ pt.epoch + 1 = St(m).epoch
          /\ OwnLeafKept(St(m))
          /\ \E r \in CommitsOf(m) :
                r.err = "" /\ OwnCommitRefused(St(m), StHandle(St(m), r.pt))

\* C38: a list of resolved proposals that holds a proposal of a type other
\* than Add, Update and Remove is refused by apply(): the call ends with an
\* error (ProtocolError is the one claimed) and the proposal is not skipped.
KnownTypes == { "add", "update", "remove" }
HoldsUnknown(proposals) ==
    \E i \in 1..Len(proposals) : ProposalType(proposals[i].proposal) \notin KnownTypes
C38_UnknownRejected ==
    (lastOp.op = "apply" /\ HoldsUnknown(lastOp.proposals)) => lastOp.err # ""

\* The sizes of cipher_details, per suite: hash, AEAD key and AEAD nonce.
CipherDetails ==
    [X25519_AES128GCM_SHA256_Ed25519 |-> [Nh |-> 32, Nk |-> 16, Nn |-> 12],
     P256_AES128GCM_SHA256_P256 |-> [Nh |-> 32, Nk |-> 16, Nn |-> 12],
     X25519_CHACHA20POLY1305_SHA256_Ed25519 |-> [Nh |-> 32, Nk |-> 32, Nn |-> 12],
     X448_AES256GCM_SHA512_Ed448 |-> [Nh |-> 64, Nk |-> 32, Nn |-> 12],
     P521_AES256GCM_SHA512_P521 |-> [Nh |-> 64, Nk |-> 32, Nn |-> 12],
     X448_CHACHA20POLY1305_SHA512_Ed448 |-> [Nh |-> 64, Nk |-> 32, Nn |-> 12]]
CipherSuites == DOMAIN CipherDetails

\* The length in bytes, under a suite, of a secret derived by
\* derive_app_secret.
LengthOf(suite, derived) == CipherDetails[suite][derived[6]]

\* C40: under every suite, the key of a pair returned by next or get has
\* the AEAD key size of the suite and the nonce its AEAD nonce size.
C40_KeyAndNonceSizes ==
    (lastKey.op \in { "next", "get" } /\ lastKey.keys # None) =>
        \A suite \in CipherSuites :
            /\ LengthOf(suite, lastKey.keys[1][1]) = CipherDetails[suite].Nk
            /\ LengthOf(suite, lastKey.keys[1][2]) = CipherDetails[suite].Nn

=============================================================================
